---------------------------- MODULE Spec2Model ----------------------------
(***************************************************************************)
(* EFT codec of veduco/EFTSuite-Public (WebApp/services).                  *)
(*                                                                         *)
(* Bytes are naturals 0..255, byte strings and text are sequences of them  *)
(* (text: sequences of code points).  Offsets are 0-based as in Python and *)
(* follow Python's slice rules (negative indices count from the end).      *)
(* A dict is the sequence of its entries in insertion order; an entry is   *)
(* [k |-> key text, v |-> value, bin |-> value is a bytes object].         *)
(***************************************************************************)
EXTENDS Integers, Sequences, FiniteSets, TLC

FS_CHAR == 28
GS_CHAR == 29
RS_CHAR == 30
US_CHAR == 31
COLON == 58
DOT == 46
MINUS == 45
REPLACEMENT == 65533

\* ------------------------------------------------------------------------
\* Python built-ins the codec relies on
\* ------------------------------------------------------------------------

\* str(n) of an int
RECURSIVE Str(_)
Str(n) ==
  IF n < 0 THEN <<MINUS>> \o Str(0 - n)
  ELSE IF n < 10 THEN <<48 + n>>
  ELSE Str(n \div 10) \o <<48 + (n % 10)>>

\* a slice index brought into 0..n
PyNorm(i, n) ==
  IF i < 0 THEN (IF n + i < 0 THEN 0 ELSE n + i)
  ELSE IF i > n THEN n ELSE i

\* s[a:b]
Slice(s, a, b) ==
  LET x == PyNorm(a, Len(s))
      y == PyNorm(b, Len(s))
  IN IF x >= y THEN <<>> ELSE SubSeq(s, x + 1, y)

\* the first i in x..(y-1) with s[i] = b (0-based), or -1
FindIn(s, b, x, y) ==
  LET hits == {i \in x..(y - 1) : s[i + 1] = b}
  IN IF hits = {} THEN -1 ELSE CHOOSE i \in hits : \A j \in hits : i <= j

\* s.find(bytes([b]), start, end); -1 when absent (s.index raises there)
Find3(s, b, start, end) == FindIn(s, b, PyNorm(start, Len(s)), PyNorm(end, Len(s)))

\* s.find(bytes([b]), start)
Find(s, b, start) == Find3(s, b, start, Len(s))

Contains(s, b) == \E i \in 1..Len(s) : s[i] = b

\* s.split(sep): the parts between the separators, always at least one
RECURSIVE Split(_, _)
RECURSIVE SplitAt(_, _, _)
\* the split with i the place of the first separator
SplitAt(s, b, i) ==
  IF i = -1 THEN <<s>>
  ELSE <<Slice(s, 0, i)>> \o Split(Slice(s, i + 1, Len(s)), b)

Split(s, b) == SplitAt(s, b, Find(s, b, 0))

Split1At(s, i) ==
  IF i = -1 THEN <<s>>
  ELSE <<Slice(s, 0, i), Slice(s, i + 1, Len(s))>>

\* s.split(sep, 1)
Split1(s, b) == Split1At(s, Find(s, b, 0))

\* what str.strip() and int() take for white space (ASCII range)
IsSpace(c) == c \in {9, 10, 11, 12, 13, 28, 29, 30, 31, 32}

IsDigit(c) == c >= 48 /\ c <= 57

RECURSIVE LStrip(_)
LStrip(s) ==
  IF s # <<>> /\ IsSpace(s[1]) THEN LStrip(Tail(s)) ELSE s

RECURSIVE RStrip(_)
RStrip(s) ==
  IF s # <<>> /\ IsSpace(s[Len(s)]) THEN RStrip(SubSeq(s, 1, Len(s) - 1)) ELSE s

Strip(s) == RStrip(LStrip(s))

\* the digits of an int literal: digits, single underscores between digits
IsIntBody(s) ==
  /\ s # <<>>
  /\ \A i \in 1..Len(s) :
       \/ IsDigit(s[i])
       \/ (s[i] = 95 /\ i > 1 /\ i < Len(s) /\ IsDigit(s[i - 1]) /\ IsDigit(s[i + 1]))

RECURSIVE DigitsValue(_)
DigitsValue(s) ==
  IF s = <<>> THEN 0
  ELSE IF s[Len(s)] = 95 THEN DigitsValue(SubSeq(s, 1, Len(s) - 1))
  ELSE 10 * DigitsValue(SubSeq(s, 1, Len(s) - 1)) + (s[Len(s)] - 48)

\* int(s): ok is FALSE where Python raises ValueError
\* t is the stripped text, body what follows its sign
IntLiteral(t, body) ==
  IF IsIntBody(body)
  THEN [ok |-> TRUE,
        val |-> IF t[1] = MINUS THEN 0 - DigitsValue(body) ELSE DigitsValue(body)]
  ELSE [ok |-> FALSE, val |-> 0]

IntStripped(t) ==
  IntLiteral(t, IF t # <<>> /\ t[1] \in {43, MINUS} THEN Tail(t) ELSE t)

PyInt(s) == IntStripped(Strip(s))

IsAscii(s) == \A i \in 1..Len(s) : s[i] < 128

\* bytes.decode('ascii', errors='ignore')
DecodeAsciiIgnore(s) == SelectSeq(s, LAMBDA b : b < 128)

\* bytes.decode('utf-8', errors='replace') for ASCII, two-byte sequences and
\* bytes that start no sequence (0x80..0xC1, 0xF5..0xFF); the files of this
\* model hold no lead byte 0xE0..0xF4
DecodeUtf8Replace(s) ==
  LET pair(i) == /\ i >= 1 /\ i < Len(s)
                 /\ s[i] >= 194 /\ s[i] <= 223
                 /\ s[i + 1] >= 128 /\ s[i + 1] <= 191
      \* a lead byte is no continuation byte, so pairs never overlap
      point(i) == IF pair(i - 1) THEN -1
                  ELSE IF s[i] < 128 THEN s[i]
                  ELSE IF pair(i) THEN (s[i] - 192) * 64 + (s[i + 1] - 128)
                  ELSE REPLACEMENT
  IN SelectSeq([i \in 1..Len(s) |-> point(i)], LAMBDA c : c # -1)

\* ------------------------------------------------------------------------
\* dicts
\* ------------------------------------------------------------------------

Text(s) == [v |-> s, bin |-> FALSE]
Bytes(s) == [v |-> s, bin |-> TRUE]
Entry(key, val) == [k |-> key, v |-> val.v, bin |-> val.bin]

DictHas(d, key) == \E i \in 1..Len(d) : d[i].k = key

DictGet(d, key) == d[CHOOSE i \in 1..Len(d) : d[i].k = key]

\* d[key] = val
DictSet(d, key, val) ==
  IF DictHas(d, key)
  THEN [i \in 1..Len(d) |-> IF d[i].k = key THEN Entry(key, val) ELSE d[i]]
  ELSE Append(d, Entry(key, val))

\* del d[key]
DictDel(d, key) == SelectSeq(d, LAMBDA e : e.k # key)

\* a tag "<type>.<field>" with the field in three digits, as the source
\* writes its literals
Tag(t, f) ==
  Str(t) \o <<DOT>> \o
  (IF f < 10 THEN <<48, 48>> ELSE IF f < 100 THEN <<48>> ELSE <<>>) \o Str(f)

\* ------------------------------------------------------------------------
\* eft_helper.join_dict
\* ------------------------------------------------------------------------

\* (int(parts[0]), int(parts[1])), or (99, 99) on any exception
SortKeyInts(a, b) == IF a.ok /\ b.ok THEN <<a.val, b.val>> ELSE <<99, 99>>

SortKeyParts(parts) ==
  IF Len(parts) >= 2 THEN SortKeyInts(PyInt(parts[1]), PyInt(parts[2]))
  ELSE <<99, 99>>

SortKey(key) == SortKeyParts(Split(key, DOT))

KeyLess(a, b) == a[1] < b[1] \/ (a[1] = b[1] /\ a[2] < b[2])

\* sorted(d.keys(), key=sort_key): stable, equal keys keep insertion order
SortedBy(d, keys) ==
  LET first(i, j) == KeyLess(keys[i], keys[j]) \/ (~KeyLess(keys[j], keys[i]) /\ i < j)
      rank(i) == Cardinality({j \in 1..Len(d) : first(j, i)}) + 1
  IN [n \in 1..Len(d) |-> d[CHOOSE i \in 1..Len(d) : rank(i) = n]]

SortedEntries(d) ==
  SortedBy(d, SubSeq([i \in 1..Len(d) |-> SortKey(d[i].k)], 1, Len(d)))

\* bytearray(key, 'ascii') and bytearray(str(val), 'ascii') raise on a
\* character above 127
JoinDictOk(d) ==
  \A i \in 1..Len(d) : IsAscii(d[i].k) /\ (d[i].bin \/ IsAscii(d[i].v))

RECURSIVE JoinEntries(_, _)
JoinEntries(es, i) ==
  IF i > Len(es) THEN <<>>
  ELSE es[i].k \o <<COLON>> \o es[i].v
       \o <<IF i = Len(es) THEN FS_CHAR ELSE GS_CHAR>>
       \o JoinEntries(es, i + 1)

JoinDict(d) == JoinEntries(SortedEntries(d), 1)

\* ------------------------------------------------------------------------
\* eft_helper: the clock and the defaults
\* ------------------------------------------------------------------------

VERSION == <<48, 50, 48, 48>>
ORI == <<87, 86, 65, 84, 70, 48, 56, 48, 48>>
DAI == <<87, 86, 73, 65, 70, 73, 83, 48, 90>>
TOT == <<70, 65, 85, 70>>
ZeroRes == <<48, 48, 46, 48, 48>>

\* get_date(): the clock, a day back, as "YYYYMMDD:HHMMSS" (here 20250114:120000)
get_date == <<50, 48, 50, 53, 48, 49, 49, 52, COLON, 49, 50, 48, 48, 48, 48>>

DatePart == Split(get_date, COLON)[1]

ReplaceByte(s, a, b) == [i \in 1..Len(s) |-> IF s[i] = a THEN b ELSE s[i]]

\* ------------------------------------------------------------------------
\* eft_helper: the record classes.  An object is a record with its class in
\* cls; tagged classes keep idc as the text str(idc), binary ones as a number
\* ------------------------------------------------------------------------

Type1New ==
  [cls |-> "Type1", rtype |-> <<48>>, idc |-> <<48>>,
   ver |-> VERSION, tot |-> TOT, dat |-> DatePart, pry |-> <<53>>,
   dai |-> DAI, ori |-> ORI,
   tcn |-> ORI \o ReplaceByte(get_date, COLON, MINUS) \o <<MINUS, 69, 70, 84, 67, MINUS>>,
   nsr |-> ZeroRes, ntr |-> ZeroRes, cnt |-> <<>>]

\* Type2(idc) with the attributes b set afterwards
Type2New(idc, b) ==
  [cls |-> "Type2", rtype |-> <<50>>, idc |-> Str(idc),
   ssn |-> b.ssn, name |-> b.name, aka |-> b.aka, pob |-> b.pob, ctz |-> b.ctz,
   dob |-> b.dob, sex |-> b.sex, race |-> b.race, height |-> b.height,
   weight |-> b.weight, eye |-> b.eye, hair |-> b.hair, rsn |-> b.rsn,
   dfp |-> DatePart, addr |-> b.addr, amp |-> b.amp, extra_fields |-> <<>>]

Type4Imp(fgp) == IF 1 <= fgp /\ fgp <= 10 THEN 1 ELSE 0

\* "NONE", "WSQ20" or "WSQ", "JP2", "PNG"; anything else is taken for WSQ
Type4Cga(cga) ==
  IF cga = <<78, 79, 78, 69>> THEN 0
  ELSE IF cga = <<74, 80, 50>> THEN 4
  ELSE IF cga = <<80, 78, 71>> THEN 5
  ELSE 1

\* Type4(f, idc) followed by build(): f is the Fingerprint, f.img the bytes of
\* the file f.converted names
Type4New(f, idc) ==
  [cls |-> "Type4", rtype |-> <<52>>, idc |-> idc, fgp |-> f.fgp,
   imp |-> Type4Imp(f.fgp), isr |-> 0, hll |-> f.hll, vll |-> f.vll,
   cga |-> Type4Cga(f.cga), dat |-> f.img]

\* Type14(f, idc) followed by build()
Type14New(f, idc) ==
  [cls |-> "Type14", rtype |-> <<49, 52>>, idc |-> Str(idc),
   scu |-> <<49>>, imp |-> <<49>>, src |-> ORI,
   hll |-> Str(f.hll), vll |-> Str(f.vll), slc |-> <<49>>,
   thps |-> <<50, 52, 48, 48>>, tvps |-> <<50, 52, 48, 48>>,
   cga |-> f.cga, bpx |-> <<56>>, fgp |-> Str(f.fgp),
   dat |-> f.img, fingerprints |-> f.fingers]

\* Finger.getPosString / getScoreString
getPosString(g) ==
  Str(g.n) \o <<US_CHAR>> \o Str(g.sx) \o <<US_CHAR>> \o Str(g.sx + g.sw)
  \o <<US_CHAR>> \o Str(g.sy) \o <<US_CHAR>> \o Str(g.sy + g.sh)

getScoreString(g) ==
  Str(IF g.n = 11 THEN 1 ELSE IF g.n = 12 THEN 6 ELSE g.n)
  \o <<US_CHAR>> \o Str(g.score) \o <<US_CHAR, 49, 53, US_CHAR, 49, 52, 50, 48, 53>>

RECURSIVE JoinRS(_)
JoinRS(parts) ==
  IF parts = <<>> THEN <<>>
  ELSE IF Len(parts) = 1 THEN parts[1]
  ELSE parts[1] \o <<RS_CHAR>> \o JoinRS(Tail(parts))

getFingerprintPos(r) ==
  JoinRS([i \in 1..Len(r.fingerprints) |-> getPosString(r.fingerprints[i])])

getFingerprintQuality(r) ==
  JoinRS([i \in 1..Len(r.fingerprints) |-> getScoreString(r.fingerprints[i])])

\* Record.__cnt__: "<type> US <idc>", the idc in two digits when 0..9
cnt_text(rtype, tmp) ==
  rtype \o <<US_CHAR>> \o
  (IF tmp >= 0 /\ tmp < 10 THEN <<48>> \o Str(tmp) ELSE Str(tmp))

\* int(self.idc), or 0 on any exception
IntOr(p, default) == IF p.ok THEN p.val ELSE default

cnt_entry(r) ==
  cnt_text(r.rtype,
           IF r.cls \in {"Type4", "Type4Raw"} THEN r.idc ELSE IntOr(PyInt(r.idc), 0))

\* Type1.get_count_string
get_count_string(t) ==
  <<49, US_CHAR>> \o Str(Len(t.cnt)) \o
  (IF Len(t.cnt) > 0
   THEN <<RS_CHAR>> \o JoinRS([i \in 1..Len(t.cnt) |-> cnt_entry(t.cnt[i])])
   ELSE <<>>)

\* Type2._clean_dict
\* len(str(value)) > 0; the str() of a bytes object is never empty
clean_dict(d) == SelectSeq(d, LAMBDA e : e.bin \/ Len(e.v) > 0)

RECURSIVE DictUpdate(_, _)
DictUpdate(d, more) ==
  IF more = <<>> THEN d
  ELSE DictUpdate(DictSet(d, more[1].k, [v |-> more[1].v, bin |-> more[1].bin]),
                  Tail(more))

Pair(t, f, s) == Entry(Tag(t, f), Text(s))

\* _get_dict of the tagged classes, len being the current self.len as text
get_dict(r, len) ==
  IF r.cls = "Type1" THEN
    <<Pair(1, 1, len), Pair(1, 2, r.ver), Pair(1, 3, get_count_string(r)),
      Pair(1, 4, r.tot), Pair(1, 5, r.dat), Pair(1, 6, r.pry), Pair(1, 7, r.dai),
      Pair(1, 8, r.ori), Pair(1, 9, r.tcn), Pair(1, 11, r.nsr), Pair(1, 12, r.ntr)>>
  ELSE IF r.cls = "Type2" THEN
    clean_dict(DictUpdate(
      <<Pair(2, 1, len),
        Pair(2, 2, IF Len(r.idc) = 1 THEN <<48>> \o r.idc ELSE r.idc),
        Pair(2, 5, <<78>>), Pair(2, 16, r.ssn), Pair(2, 18, r.name),
        Pair(2, 19, r.aka), Pair(2, 20, r.pob), Pair(2, 21, r.ctz),
        Pair(2, 22, r.dob), Pair(2, 24, r.sex), Pair(2, 25, r.race),
        Pair(2, 27, r.height), Pair(2, 29, r.weight), Pair(2, 31, r.eye),
        Pair(2, 32, r.hair), Pair(2, 37, r.rsn), Pair(2, 38, r.dfp),
        Pair(2, 41, r.addr), Pair(2, 73, ORI), Pair(2, 84, r.amp)>>,
      r.extra_fields))
  ELSE IF r.cls = "Type14" THEN
    <<Pair(14, 1, len), Pair(14, 2, r.idc), Pair(14, 3, r.imp), Pair(14, 4, r.src),
      Pair(14, 5, DatePart), Pair(14, 6, r.hll), Pair(14, 7, r.vll),
      Pair(14, 8, r.scu), Pair(14, 9, r.thps), Pair(14, 10, r.tvps),
      Pair(14, 11, r.cga), Pair(14, 12, r.bpx), Pair(14, 13, r.fgp),
      Pair(14, 21, getFingerprintPos(r)), Pair(14, 23, getFingerprintQuality(r)),
      Pair(14, 24, getFingerprintQuality(r)),
      Entry(Tag(14, 999), Bytes(r.dat))>>
  ELSE \* Type14Raw: 14.001, then the kept fields in sort_key order
    <<Pair(14, 1, len)>> \o SortedEntries(r.fields)

\* ------------------------------------------------------------------------
\* the length solver (Record._get_len) and Record.repr
\* ------------------------------------------------------------------------

LEN_ROUNDS == 5

RECURSIVE get_len_from(_, _, _)
RECURSIVE get_len_round(_, _, _, _)
\* variant: a round that leaves self.len as it was
get_len_round_keep(r, len, rounds, size) ==
  IF size = len THEN len ELSE get_len_from(r, len, rounds - 1)

\* one round: size is str(curr_size)
get_len_round(r, len, rounds, size) ==
  IF size = len THEN len ELSE get_len_from(r, size, rounds - 1)

get_len_from(r, len, rounds) ==
  IF rounds = 0 THEN len
  ELSE get_len_round(r, len, rounds, Str(Len(JoinDict(get_dict(r, len)))))

RECURSIVE get_len_rounds(_, _, _)
\* variant: a round that never breaks
get_len_count_nobreak(r, len, rounds, size) == 1 + get_len_rounds(r, size, rounds - 1)

\* the rounds of the loop that are run: this one, and the rest unless it breaks
get_len_count(r, len, rounds, size) ==
  IF size = len THEN 1 ELSE 1 + get_len_rounds(r, size, rounds - 1)

\* how many times _get_len serializes and compares, from the guess len with
\* rounds left
get_len_rounds(r, len, rounds) ==
  IF rounds = 0 THEN 0
  ELSE get_len_count(r, len, rounds, Str(Len(JoinDict(get_dict(r, len)))))

\* variant: the length taken after a single round
get_len_once(r) == get_len_from(r, <<49>>, 1)

get_len(r) == get_len_from(r, <<49>>, LEN_ROUNDS)

\* struct.pack('>I B B 6B B H H B', ...) of a Type-4 header
U32BE(n) == <<(n \div 16777216) % 256, (n \div 65536) % 256, (n \div 256) % 256, n % 256>>
U16BE(n) == <<(n \div 256) % 256, n % 256>>

\* variant: the header left out of the length
Type4_payload_len(r) == Len(r.dat)

Type4_get_len(r) == 18 + Len(r.dat)

Type4Header(r, total_len) ==
  U32BE(total_len) \o <<r.idc, r.imp, r.fgp, 255, 255, 255, 255, 255, r.isr>>
  \o U16BE(r.hll) \o U16BE(r.vll) \o <<r.cga>>

IsBinaryClass(r) == r.cls \in {"Type4", "Type4Raw"}

\* repr() raises: struct.error on a value out of its field's range (a length of
\* 2^32 bytes is beyond any record of the model), UnicodeEncodeError on a
\* non-ASCII key or text value
repr_ok(r) ==
  IF IsBinaryClass(r)
  THEN /\ \A x \in {r.idc, r.imp, r.fgp, r.isr, r.cga} : x >= 0 /\ x <= 255
       /\ \A x \in {r.hll, r.vll} : x >= 0 /\ x <= 65535
  ELSE JoinDictOk(get_dict(r, <<49>>))

repr(r) ==
  IF IsBinaryClass(r) THEN Type4Header(r, Type4_get_len(r)) \o r.dat
  ELSE JoinDict(get_dict(r, get_len(r)))

\* ------------------------------------------------------------------------
\* eft_parser: the record parsers
\* ------------------------------------------------------------------------

EndsWith(s, suffix) ==
  Len(s) >= Len(suffix) /\ SubSeq(s, Len(s) - Len(suffix) + 1, Len(s)) = suffix

\* _parse_field_entry: (None, None) is [ok |-> FALSE]
field_entry(parts) ==
  IF ~IsAscii(parts[1]) THEN [ok |-> FALSE, k |-> <<>>, val |-> Text(<<>>)]
  ELSE [ok |-> TRUE, k |-> parts[1],
        val |-> IF EndsWith(parts[1], <<DOT, 57, 57, 57>>)
                THEN Bytes(parts[2])
                ELSE Text(DecodeUtf8Replace(parts[2]))]

parse_field_entry(data) ==
  IF ~Contains(data, COLON) THEN [ok |-> FALSE, k |-> <<>>, val |-> Text(<<>>)]
  ELSE field_entry(Split1(data, COLON))

\* "if key: fields[key] = val"
PutEntry(fields, e) ==
  IF e.ok /\ e.k # <<>> THEN DictSet(fields, e.k, e.val) ELSE fields

RECURSIVE PutParts(_, _)
PutParts(fields, parts) ==
  IF parts = <<>> THEN fields
  ELSE PutParts(PutEntry(fields, parse_field_entry(parts[1])), Tail(parts))

\* str.isdigit() on ASCII text
IsDigits(s) == s # <<>> /\ \A i \in 1..Len(s) : IsDigit(s[i])

\* the record types _parse_record walks tag by tag:
\* '4', '7', '8', '10', '13', '14', '15', '16', '17'
BinaryTypes ==
  {<<52>>, <<55>>, <<56>>, <<49, 48>>, <<49, 51>>, <<49, 52>>, <<49, 53>>,
   <<49, 54>>, <<49, 55>>}

\* len(parts) == 2 and parts[0].isdigit() and parts[1].isdigit()
TagParts(parts) == Len(parts) = 2 /\ IsDigits(parts[1]) /\ IsDigits(parts[2])

\* the "while curr < len(processing_data)" loop of _parse_record
RECURSIVE WalkBinary(_, _, _)
RECURSIVE WalkColon(_, _, _, _)
RECURSIVE WalkCand(_, _, _, _)
RECURSIVE WalkTag(_, _, _, _, _)
RECURSIVE WalkText(_, _, _, _, _)
\* a text field up to next_gs
WalkText(pd, fields, colon_pos, cand, next_gs) ==
  WalkBinary(pd, next_gs + 1,
             DictSet(fields, cand,
                     Text(DecodeUtf8Replace(Slice(pd, colon_pos + 1, next_gs)))))

WalkGS(pd, g) == IF g = -1 THEN Len(pd) ELSE g

\* cand is the tag candidate before the colon, parts its split at '.'
WalkTag(pd, fields, colon_pos, cand, parts) ==
  IF ~(IsAscii(cand) /\ Contains(cand, DOT) /\ TagParts(parts))
  THEN WalkBinary(pd, colon_pos + 1, fields)
  ELSE IF parts[2] = <<57, 57, 57>>
       THEN DictSet(fields, cand, Bytes(Slice(pd, colon_pos + 1, Len(pd))))
  ELSE WalkText(pd, fields, colon_pos, cand, WalkGS(pd, Find(pd, GS_CHAR, colon_pos)))

WalkCand(pd, fields, colon_pos, cand) ==
  WalkTag(pd, fields, colon_pos, cand, Split(cand, DOT))

WalkColon(pd, curr, fields, colon_pos) ==
  IF colon_pos = -1 THEN fields
  ELSE WalkCand(pd, fields, colon_pos, Slice(pd, curr, colon_pos))

WalkBinary(pd, curr, fields) ==
  IF curr >= Len(pd) THEN fields
  ELSE WalkColon(pd, curr, fields, Find(pd, COLON, curr))

\* variant: every trailing FS stripped
RECURSIVE StripAllFS(_)
StripAllFS(data) ==
  IF data # <<>> /\ data[Len(data)] = FS_CHAR
  THEN StripAllFS(SubSeq(data, 1, Len(data) - 1))
  ELSE data

StripFS(data) ==
  IF data # <<>> /\ data[Len(data)] = FS_CHAR THEN SubSeq(data, 1, Len(data) - 1)
  ELSE data

\* the record once rec_type is known; pd is processing_data
parse_fields(pd, rec_type) ==
  IF rec_type \in BinaryTypes THEN WalkBinary(pd, 0, <<>>)
  ELSE PutParts(<<>>, Split(pd, GS_CHAR))

parse_record_at(data, gs_index) ==
  IF gs_index = -1 THEN PutEntry(<<>>, parse_field_entry(StripFS(data)))
  ELSE parse_fields(StripFS(data),
                    Split(DecodeAsciiIgnore(Slice(data, 0, gs_index)), DOT)[1])

parse_record(data) == parse_record_at(data, Find(data, GS_CHAR, 0))

HEADER_LEN == 18

U32Value(b) == ((b[1] * 256 + b[2]) * 256 + b[3]) * 256 + b[4]
\* variant: the two bytes read little-endian
U16ValueLE(b) == b[2] * 256 + b[1]

U16Value(b) == b[1] * 256 + b[2]

parse_binary_type4(data) ==
  IF Len(data) < HEADER_LEN THEN <<>>
  ELSE <<Pair(4, 2, Str(data[5])), Pair(4, 3, Str(data[6])), Pair(4, 4, Str(data[7])),
         Pair(4, 5, Str(data[13])), Pair(4, 6, Str(U16Value(<<data[14], data[15]>>))),
         Pair(4, 7, Str(U16Value(<<data[16], data[17]>>))), Pair(4, 8, Str(data[18])),
         Entry(Tag(4, 999), Bytes(Slice(data, HEADER_LEN, Len(data))))>>

\* ------------------------------------------------------------------------
\* eft_parser: what one round of the record loop of _parse finds at offset
\* ------------------------------------------------------------------------

SEARCH_LIMIT == 50
LEN_TOLERANCE == 100

\* the tag before the first colon reads "1.001"
Type1Tag(d, off, first_colon) ==
  /\ first_colon # -1
  /\ DecodeAsciiIgnore(Slice(d, off, first_colon)) = <<49, DOT, 48, 48, 49>>

IsType1At(d, off) == Type1Tag(d, off, Find(d, COLON, off))

Min2(a, b) == IF a < b THEN a ELSE b

\* the tagged attempt: [ok, len]; every exception in it means "not tagged"
NotTagged == [ok |-> FALSE, len |-> 0]

\* record_len = int(parts[1])
TaggedLen(p) == IF p.ok THEN [ok |-> TRUE, len |-> p.val] ELSE NotTagged

TaggedParts(parts) ==
  IF Len(parts) = 2 /\ Contains(parts[1], DOT) THEN TaggedLen(PyInt(parts[2]))
  ELSE NotTagged

TaggedField(first_field) ==
  IF IsAscii(first_field) THEN TaggedParts(Split(first_field, COLON)) ELSE NotTagged

TaggedGS(d, off, gs_index) ==
  IF gs_index # -1 THEN TaggedField(Slice(d, off, gs_index)) ELSE NotTagged

TaggedAt(d, off) ==
  TaggedGS(d, off, Find3(d, GS_CHAR, off, off + Min2(SEARCH_LIMIT, Len(d) - off)))

\* the binary attempt: [ok, len].  A first byte of 128 or more makes the
\* uint32 2^31 or more, above any file length plus the tolerance
\* variant: a record must be longer than its header
BinaryLenStrict(d, off, bin_len) ==
  IF HEADER_LEN < bin_len /\ bin_len <= (Len(d) - off) + LEN_TOLERANCE
  THEN [ok |-> TRUE, len |-> bin_len]
  ELSE [ok |-> FALSE, len |-> 0]

BinaryLen(d, off, bin_len) ==
  IF HEADER_LEN <= bin_len /\ bin_len <= (Len(d) - off) + LEN_TOLERANCE
  THEN [ok |-> TRUE, len |-> bin_len]
  ELSE [ok |-> FALSE, len |-> 0]

BinaryHead(d, off, head) ==
  IF Len(head) = 4 /\ head[1] < 128 THEN BinaryLen(d, off, U32Value(head))
  ELSE [ok |-> FALSE, len |-> 0]

BinaryAt(d, off) ==
  IF off + 4 <= Len(d) THEN BinaryHead(d, off, Slice(d, off, off + 4))
  ELSE [ok |-> FALSE, len |-> 0]

\* ------------------------------------------------------------------------
\* eft_helper / eft_editor: rebuilding records from parsed dicts
\* ------------------------------------------------------------------------

\* Type1.from_dict
Type1_from_dict(t, d) ==
  LET pick(f, old) == IF DictHas(d, Tag(1, f)) THEN DictGet(d, Tag(1, f)).v ELSE old
  IN [t EXCEPT !.ver = pick(2, @), !.tot = pick(4, @), !.dat = pick(5, @),
               !.pry = pick(6, @), !.dai = pick(7, @), !.ori = pick(8, @),
               !.tcn = pick(9, @), !.nsr = pick(11, @), !.ntr = pick(12, @)]

StartsWith(s, prefix) == Len(s) >= Len(prefix) /\ SubSeq(s, 1, Len(prefix)) = prefix

\* Type2.from_dict, entry by entry
Type2_set(t, e) ==
  LET is(f) == e.k = Tag(2, f)
  IN IF is(2) THEN [t EXCEPT !.idc = e.v]
     ELSE IF is(16) THEN [t EXCEPT !.ssn = e.v]
     ELSE IF is(18) THEN [t EXCEPT !.name = e.v]
     ELSE IF is(19) THEN [t EXCEPT !.aka = e.v]
     ELSE IF is(20) THEN [t EXCEPT !.pob = e.v]
     ELSE IF is(21) THEN [t EXCEPT !.ctz = e.v]
     ELSE IF is(22) THEN [t EXCEPT !.dob = e.v]
     ELSE IF is(24) THEN [t EXCEPT !.sex = e.v]
     ELSE IF is(25) THEN [t EXCEPT !.race = e.v]
     ELSE IF is(27) THEN [t EXCEPT !.height = e.v]
     ELSE IF is(29) THEN [t EXCEPT !.weight = e.v]
     ELSE IF is(31) THEN [t EXCEPT !.eye = e.v]
     ELSE IF is(32) THEN [t EXCEPT !.hair = e.v]
     ELSE IF is(37) THEN [t EXCEPT !.rsn = e.v]
     ELSE IF is(38) THEN [t EXCEPT !.dfp = e.v]
     ELSE IF is(41) THEN [t EXCEPT !.addr = e.v]
     ELSE IF is(84) THEN [t EXCEPT !.amp = e.v]
     ELSE IF StartsWith(e.k, <<50, DOT>>) /\ ~is(1) /\ ~is(5) /\ ~is(73)
          THEN [t EXCEPT !.extra_fields = DictSet(@, e.k, [v |-> e.v, bin |-> e.bin])]
     ELSE t

RECURSIVE Type2_from_dict(_, _)
Type2_from_dict(t, d) ==
  IF d = <<>> THEN t ELSE Type2_from_dict(Type2_set(t, d[1]), Tail(d))

EmptyBio ==
  [ssn |-> <<>>, name |-> <<>>, aka |-> <<>>, pob |-> <<>>, ctz |-> <<>>,
   dob |-> <<>>, sex |-> <<>>, race |-> <<>>, height |-> <<>>, weight |-> <<>>,
   eye |-> <<>>, hair |-> <<>>, rsn |-> <<>>, addr |-> <<>>, amp |-> <<>>]

\* Type14Raw(data, idc)
Type14RawNew(d, idc) ==
  LET kept == DictDel(d, Tag(14, 1))
  IN [cls |-> "Type14Raw", rtype |-> <<49, 52>>, idc |-> Str(idc),
      fields |-> IF idc > 0 THEN DictSet(kept, Tag(14, 2), Text(Str(idc))) ELSE kept]

\* Type4Raw(data, idc): a field that is absent or no int keeps its default
Type4RawField(d, key, default) ==
  IF DictHas(d, key) THEN IntOr(PyInt(DictGet(d, key).v), default) ELSE default

Type4RawFgp(d, idc, fgp) ==
  [cls |-> "Type4Raw", rtype |-> <<52>>, idc |-> Type4RawField(d, Tag(4, 2), idc),
   fgp |-> fgp, imp |-> Type4RawField(d, Tag(4, 3), Type4Imp(fgp)),
   isr |-> Type4RawField(d, Tag(4, 5), 0), hll |-> Type4RawField(d, Tag(4, 6), 0),
   vll |-> Type4RawField(d, Tag(4, 7), 0), cga |-> Type4RawField(d, Tag(4, 8), 1),
   dat |-> IF DictHas(d, Tag(4, 999)) THEN DictGet(d, Tag(4, 999)).v ELSE <<>>]

Type4RawNew(d, idc) == Type4RawFgp(d, idc, Type4RawField(d, Tag(4, 4), 0))

\* variant: the new record put in front of the list
add_record_front(t, r) == [t EXCEPT !.cnt = <<r>> \o @]

\* Type1.add_record
add_record(t, r) == [t EXCEPT !.cnt = Append(@, r)]

\* keys[0].split('.')[0] of a parsed record with at least one key
RecType(r) == Split(r[1].k, DOT)[1]

IsType2Dict(r) == \E i \in 1..Len(r) : StartsWith(r[i].k, <<50, DOT>>)

\* the rebuild loop of EFTEditor.save over records i.., with the next IDC
RECURSIVE EditorChildren(_, _, _, _, _)
EditorChildren(t, recs, i, t2_idx, current_idc) ==
  IF i > Len(recs) THEN t
  ELSE IF i = 1 \/ i = t2_idx \/ recs[i] = <<>>
       THEN EditorChildren(t, recs, i + 1, t2_idx, current_idc)
  ELSE IF RecType(recs[i]) = <<49, 52>>
       THEN EditorChildren(add_record(t, Type14RawNew(recs[i], current_idc)),
                           recs, i + 1, t2_idx, current_idc + 1)
  ELSE IF RecType(recs[i]) = <<52>>
       THEN EditorChildren(add_record(t, Type4RawNew(recs[i], current_idc)),
                           recs, i + 1, t2_idx, current_idc + 1)
  ELSE EditorChildren(t, recs, i + 1, t2_idx, current_idc)

\* the "2."-keyed updates merged into the Type-2 dict
RECURSIVE MergeUpdates(_, _)
MergeUpdates(d, ups) ==
  IF ups = <<>> THEN d
  ELSE MergeUpdates(
         IF StartsWith(ups[1].k, <<50, DOT>>) THEN DictSet(d, ups[1].k, Text(ups[1].v))
         ELSE d,
         Tail(ups))

\* the Type-1 object EFTEditor.save hands to write_to_file
EditorTree(recs, t2_idx, ups) ==
  EditorChildren(
    add_record(Type1_from_dict(Type1New, recs[1]),
               Type2_from_dict(Type2New(1, EmptyBio), MergeUpdates(recs[t2_idx], ups))),
    recs, 1, t2_idx, 2)

\* Record.write_to_file: the Type-1 record, then each child, appended to the
\* file until one raises; rs is <<the Type-1 record>> \o its children
\* writes are the f.write calls made, in order
RECURSIVE write_from(_, _, _)
write_from(rs, i, writes) ==
  IF i > Len(rs) THEN [ok |-> TRUE, writes |-> writes]
  ELSE IF ~repr_ok(rs[i]) THEN [ok |-> FALSE, writes |-> writes]
  ELSE write_from(rs, i + 1, Append(writes, repr(rs[i])))

write_to_file(t) == write_from(<<t>> \o t.cnt, 1, <<>>)

\* the content of a file opened 'wb' after these writes
RECURSIVE FileBytes(_)
FileBytes(writes) ==
  IF writes = <<>> THEN <<>> ELSE writes[1] \o FileBytes(Tail(writes))

\* ------------------------------------------------------------------------
\* eft_generator.generate_eft: the execution loop
\* ------------------------------------------------------------------------

\* variant: the ladder climbed from the lowest bitrate
bitrates_ascending == <<75, 100, 150, 200, 250, 300, 350>>

\* the ladder, in hundredths: 3.5, 3.0, 2.5, 2.0, 1.5, 1.0, 0.75
bitrates == <<350, 300, 250, 200, 150, 100, 75>>

\* size_mb = getsize / (1024 * 1024); size_mb < 11.8
Fits(size) == size * 10 < 118 * (1024 * 1024)

\* ------------------------------------------------------------------------
\* inputs
\* ------------------------------------------------------------------------

MaxChildren == 4
MaxRecords == 6

\* Type-2 attributes as the callers set them: "Doe, Jane NMN" with DOB and SSN,
\* and a bare "A"
BioFull ==
  [EmptyBio EXCEPT
     !.name = <<68, 111, 101, 44, 32, 74, 97, 110, 101, 32, 78, 77, 78>>,
     !.dob = <<49, 57, 57, 48, 48, 49, 48, 49>>,
     !.ssn = <<49, 50, 51, 52, 53, 54, 55, 56, 57>>,
     !.rsn = <<70, 105, 114, 101, 97, 114, 109, 115>>,
     !.height = <<53, 48, 56>>, !.weight = <<49, 54, 48>>]

BioMin ==
  [EmptyBio EXCEPT !.name = <<65>>, !.height = <<48, 48, 48>>, !.weight = <<48, 48, 48>>]

\* data.get(key, default) on the form data
DataGet(data, key, default) == IF DictHas(data, key) THEN DictGet(data, key).v ELSE default

\* [p.strip() for p in name_str.split(',') if p.strip()]
NameParts(name_str) ==
  SelectSeq([i \in 1..Len(Split(name_str, 44)) |-> Strip(Split(name_str, 44)[i])],
            LAMBDA q : q # <<>>)

\* " ".join(parts)
RECURSIVE JoinSpace(_)
JoinSpace(parts) ==
  IF parts = <<>> THEN <<>>
  ELSE IF Len(parts) = 1 THEN parts[1]
  ELSE parts[1] \o <<32>> \o JoinSpace(Tail(parts))

NMN == <<78, 77, 78>>

\* the name built from surname, first and middle, cut to 30 characters
FullName(surname, first, middle) ==
  IF Len(surname \o <<44, 32>> \o first \o <<32>> \o middle) <= 30
  THEN surname \o <<44, 32>> \o first \o <<32>> \o middle
  ELSE IF middle # NMN /\ Len(middle) > 0
          /\ Len(surname \o <<44, 32>> \o first \o <<32, middle[1]>>) <= 30
  THEN surname \o <<44, 32>> \o first \o <<32, middle[1]>>
  ELSE Slice(surname \o <<44, 32>> \o first \o <<32>> \o middle, 0, 30)

format_parts(parts) ==
  IF Len(parts) = 0 THEN <<>>
  ELSE IF Len(parts) = 1 THEN Slice(parts[1], 0, 30)
  ELSE FullName(parts[1], parts[2],
                IF Len(parts) > 2 THEN JoinSpace(SubSeq(parts, 3, Len(parts))) ELSE NMN)

format_name(name_str) ==
  IF name_str = <<>> THEN <<>> ELSE format_parts(NameParts(name_str))

\* the SSN kept when its digits are nine (the form data of this model hold
\* no bypass_ssn)
ssn_of(raw_ssn) ==
  IF Len(SelectSeq(raw_ssn, IsDigit)) = 9 THEN SelectSeq(raw_ssn, IsDigit) ELSE <<>>

\* height validation on the int() of the input
height_of(hgt) ==
  IF ~hgt.ok THEN <<48, 48, 48>>
  ELSE IF hgt.val < 400 \/ hgt.val > 711 THEN <<48, 48, 48>> ELSE Str(hgt.val)

\* weight validation on the int() of the input
weight_of(wgt) ==
  IF ~wgt.ok THEN <<48, 48, 48>>
  ELSE IF wgt.val > 499 THEN <<48, 48, 48>> ELSE Str(wgt.val)

\* the Type-2 object build_eft_attempt makes from the form data
Type2FromData(data) ==
  Type2New(0,
    [EmptyBio EXCEPT
       !.name = format_name(DataGet(data, Tag(2, 18), <<>>)),
       !.rsn = <<70, 105, 114, 101, 97, 114, 109, 115>>,
       !.dob = SelectSeq(DataGet(data, Tag(2, 22), <<>>), LAMBDA c : c # MINUS),
       !.addr = DataGet(data, Tag(2, 41), <<>>),
       !.pob = DataGet(data, Tag(2, 20), <<>>),
       !.ctz = DataGet(data, Tag(2, 21), <<>>),
       !.ssn = ssn_of(DataGet(data, Tag(2, 16), <<>>)),
       !.race = DataGet(data, Tag(2, 25), <<>>),
       !.eye = DataGet(data, Tag(2, 31), <<>>),
       !.hair = DataGet(data, Tag(2, 32), <<>>),
       !.sex = DataGet(data, Tag(2, 24), <<>>),
       !.height = height_of(PyInt(DataGet(data, Tag(2, 27), <<48>>))),
       !.weight = weight_of(PyInt(DataGet(data, Tag(2, 29), <<48>>)))])

\* form data: "Doe, Jane" with DOB 1990-01-01, SSN 123-45-6789, height 508 and
\* weight 160
DataFull ==
  <<Pair(2, 18, <<68, 111, 101, 44, 32, 74, 97, 110, 101>>), Pair(2, 22, <<49, 57, 57, 48, 45, 48, 49, 45, 48, 49>>), Pair(2, 16, <<49, 50, 51, 45, 52, 53, 45, 54, 55, 56, 57>>),
    Pair(2, 27, <<53, 48, 56>>), Pair(2, 29, <<49, 54, 48>>)>>

\* "Doe" with height 712 and weight -5
DataOdd == <<Pair(2, 18, <<68, 111, 101>>), Pair(2, 27, <<55, 49, 50>>), Pair(2, 29, <<MINUS, 53>>)>>

\* "Doe, Jane, Quincy" with height "abc" and weight 500
DataOver ==
  <<Pair(2, 18, <<68, 111, 101, 44, 32, 74, 97, 110, 101, 44, 32, 81, 117, 105, 110, 99, 121>>), Pair(2, 27, <<97, 98, 99>>), Pair(2, 29, <<53, 48, 48>>)>>

\* the name "Jos\'e" alone, its last character U+00E9
DataAccent == <<Pair(2, 18, <<74, 111, 115, 233>>)>>

\* the form data generate_eft is called with: DataFull, nothing at all (no
\* name, no height, no weight), DataOdd, DataOver, DataAccent
DataInputs == {DataFull, <<>>, DataOdd, DataOver, DataAccent}

\* Type2(0) as generate_eft builds it from the form data, Type2(1) as the
\* editor does
Type2Inputs ==
  {[t2 |-> Type2FromData(d), data |-> d] : d \in DataInputs}
  \cup {[t2 |-> Type2New(1, BioMin), data |-> <<>>]}

\* image files: separators and a colon, ending in FS; the text of a field
\* ("14.002:9" GS); no bytes at all (the empty sequence)
ImgSeparators == <<GS_CHAR, COLON, US_CHAR, RS_CHAR, FS_CHAR>>
ImgLikeField == <<49, 52, DOT, 48, 48, 50, COLON, 57, GS_CHAR>>
\* bytes above 127, a NUL, the text "14.999:" and two FS at the end
ImgBinary == <<255, 0, 49, 52, DOT, 57, 57, 57, COLON, 200, FS_CHAR, FS_CHAR>>

CgaNone == <<78, 79, 78, 69>>
CgaWsq == <<87, 83, 81, 50, 48>>

Finger2 == [n |-> 2, sx |-> 10, sy |-> 20, sw |-> 30, sh |-> 40, score |-> 3]

\* prints_map: for each position, the Fingerprint objects it may hold after
\* process_and_convert_raw / _wsq
PrintsAt(fgp) ==
  IF fgp = 1 THEN
    {[fgp |-> 1, hll |-> 800, vll |-> 750, cga |-> CgaNone, img |-> i, fingers |-> <<>>]
       : i \in {ImgSeparators, <<>>}}
  ELSE IF fgp = 2 THEN
    {[fgp |-> 2, hll |-> 800, vll |-> 750, cga |-> CgaNone, img |-> i, fingers |-> <<>>]
       : i \in {ImgLikeField, ImgBinary}}
  ELSE IF fgp = 13 THEN
    {[fgp |-> 13, hll |-> 1600, vll |-> 1000, cga |-> c, img |-> ImgSeparators,
      fingers |-> <<Finger2>>] : c \in {CgaNone, CgaWsq}}
  ELSE IF fgp = 14 THEN
    {[fgp |-> 14, hll |-> 1600, vll |-> 1000, cga |-> CgaNone, img |-> ImgLikeField,
      fingers |-> <<>>]}
  ELSE IF fgp = 15 THEN
    {[fgp |-> 15, hll |-> 800, vll |-> 800, cga |-> CgaNone, img |-> i, fingers |-> <<>>]
       : i \in {<<>>, ImgBinary}}
  ELSE {}

\* positions a Type-4 record is built for (1..14), a Type-14 record (13, 14, 15)
RolledPositions == {1, 2, 13}
SlapPositions == {13, 14, 15}

\* files the parser is given that no encoder wrote
ZeroLenRecord == <<50, DOT, 48, 48, 49, COLON, 48, GS_CHAR, 50, DOT, 48, 48, 50, COLON, 48, 48, FS_CHAR>>
NegLenRecord == <<50, DOT, 48, 48, 49, COLON, MINUS, 51, GS_CHAR, 50, DOT, 48, 48, 50, COLON, 48, 48, FS_CHAR>>
ShortRecord == <<50, DOT, 48, 48, 49, COLON, 57, 57, GS_CHAR, 50, DOT, 48, 48, 50, COLON, 48, 48>>
Garbage == <<88, 89, 90>>
HeaderNoFS == <<49, DOT, 48, 48, 49, COLON, 53>>
ShortBinary == <<0, 0, 0, 20, 1>>

\* well-formed records that open a crafted file, and what follows them
CraftedHeads ==
  {repr(r) : r \in {Type1New, Type2New(0, BioMin),
                    Type4New(CHOOSE f \in PrintsAt(13) : f.cga = CgaWsq, 13)}}

\* a Type-2 record of another agency: "2.001:27" GS "2.002:00" GS "2.073:XX" FS
ForeignType2 ==
  <<50, DOT, 48, 48, 49, COLON, 50, 55, GS_CHAR, 50, DOT, 48, 48, 50, COLON, 48, 48,
    GS_CHAR, 50, DOT, 48, 55, 51, COLON, 88, 88, FS_CHAR>>

\* a Type-2 record whose last field has no value:
\* "2.001:25" GS "2.002:00" GS "2.999:" FS
EmptyFieldType2 ==
  <<50, DOT, 48, 48, 49, COLON, 50, 53, GS_CHAR, 50, DOT, 48, 48, 50, COLON, 48, 48,
    GS_CHAR, 50, DOT, 57, 57, 57, COLON, FS_CHAR>>

\* a Type-2 record with a name in UTF-8:
\* "2.001:30" GS "2.002:00" GS "2.018:Jos" C3 A9 FS
Utf8NameType2 ==
  <<50, DOT, 48, 48, 49, COLON, 51, 48, GS_CHAR, 50, DOT, 48, 48, 50, COLON, 48, 48,
    GS_CHAR, 50, DOT, 48, 49, 56, COLON, 74, 111, 115, 195, 169, FS_CHAR>>

CraftedTails ==
  {<<>>, Garbage, ShortBinary, ShortRecord, ZeroLenRecord, <<0, 0, 0>>, ForeignType2,
   EmptyFieldType2, Utf8NameType2}

\* a file another caller of the library wrote: Type2(2), then one Type-14
\* record with IDC 1
ForeignFile ==
  FileBytes(write_to_file(
    add_record(add_record(Type1New, Type2New(2, BioMin)),
               Type14New(CHOOSE f \in PrintsAt(14) : TRUE, 1))).writes)

CraftedFiles ==
  {ZeroLenRecord, NegLenRecord, Garbage, HeaderNoFS, ForeignFile}
  \cup {h \o t : h \in CraftedHeads, t \in CraftedTails}

\* updates the editor is called with: none, or a new name "Smith, John Q"
\* and an originating agency "XX" for 2.073
Updates ==
  {<<>>,
   <<[k |-> Tag(2, 18), v |-> <<83, 109, 105, 116, 104, 44, 32, 74, 111, 104, 110, 32, 81>>]>>,
   <<[k |-> Tag(2, 73), v |-> <<88, 88>>]>>}

\* sizes os.path.getsize reports for an assembled file
FileSizes == {4096, 11744051, 11744052, 12373196, 12373197, 13000000}

\* variant: the prints taken in the order the mapping holds them
insertion_order(prints_map) == prints_map

\* sorted(prints_map.items(), key=lambda item: int(item[0])): the prints by
\* ascending position, whatever order the mapping holds them in
sorted_prints(prints_map) ==
  LET rank(i) == 1 + Cardinality({j \in 1..Len(prints_map) :
                                    prints_map[j].fgp < prints_map[i].fgp})
  IN [k \in 1..Len(prints_map) |->
        prints_map[CHOOSE i \in 1..Len(prints_map) : rank(i) = k]]

\* variant: a record for every print, whatever its position
RECURSIVE add_prints_unfiltered(_, _, _, _, _)
add_prints_unfiltered(t, fs, i, mode, idc) ==
  IF i > Len(fs) THEN t
  ELSE add_prints_unfiltered(
         add_record(t, IF mode = "rolled" THEN Type4New(fs[i], fs[i].fgp)
                       ELSE Type14New(fs[i], idc)),
         fs, i + 1, mode, idc + 1)

\* the two loops of build_eft_attempt over the sorted prints fs from the i-th on,
\* idc being the ATF loop's counter
RECURSIVE add_prints(_, _, _, _, _)
add_prints(t, fs, i, mode, idc) ==
  IF i > Len(fs) THEN t
  ELSE IF mode = "rolled" THEN
    add_prints(IF 1 <= fs[i].fgp /\ fs[i].fgp <= 14
               THEN add_record(t, Type4New(fs[i], fs[i].fgp)) ELSE t,
               fs, i + 1, mode, idc)
  ELSE IF fs[i].fgp \in {13, 14, 15} THEN
    add_prints(add_record(t, Type14New(fs[i], idc)), fs, i + 1, mode, idc + 1)
  ELSE add_prints(t, fs, i + 1, mode, idc)

\* build_eft_attempt as one function of its inputs: the form data, the
\* converted prints and the mode; the tree it writes
build_eft_attempt(data, prints_map, mode) ==
  add_prints(add_record(Type1New, Type2FromData(data)),
             sorted_prints(prints_map), 1, mode, 1)

\* the prints generate_eft is called with: slap images at these positions
GenPositions == <<13, 14>>

\* Fingerprint.__init__: nothing converted yet, cga "NONE"
FingerprintNew(fgp) ==
  [fgp |-> fgp, converted |-> "none", cga |-> CgaNone, rate |-> 0]

\* process_and_convert_raw: the raw file, cga "NONE"
process_and_convert_raw(p) ==
  [p EXCEPT !.converted = "raw", !.cga = CgaNone, !.rate = 0]

\* process_and_convert_wsq: when convert_to_wsq raises the exception is
\* swallowed and the object keeps converted and cga of the earlier attempt
process_and_convert_wsq(p, bitrate, ok) ==
  IF ok THEN [p EXCEPT !.converted = "wsq", !.cga = CgaWsq, !.rate = bitrate]
  ELSE p

\* the loop over sorted_prints; oks[i] says whether cwsq succeeds on print i
ConvertAll(ps, compression_type, bitrate, oks) ==
  [i \in 1..Len(ps) |->
     IF compression_type = "RAW" THEN process_and_convert_raw(ps[i])
     ELSE process_and_convert_wsq(ps[i], bitrate, oks[i])]

\* cwsq's outcomes for the prints of one attempt (the RAW attempt runs no cwsq)
ConversionOutcomes(compression_type) ==
  IF compression_type = "RAW" THEN {[i \in 1..Len(GenPositions) |-> TRUE]}
  ELSE [1..Len(GenPositions) -> BOOLEAN]

\* Type14(fp_obj, idc) and build(): cga from f.cga, the image from f.converted
ImageOf(p) == [cga |-> p.cga, rate |-> p.rate, file |-> p.converted]

\* ------------------------------------------------------------------------
\* eft_parser: extract_images
\* ------------------------------------------------------------------------

\* str.upper on ASCII text
Upper(s) == [i \in 1..Len(s) |-> IF s[i] >= 97 /\ s[i] <= 122 THEN s[i] - 32 ELSE s[i]]

\* sub in s
InText(sub, s) ==
  \E i \in 0..(Len(s) - Len(sub)) : SubSeq(s, i + 1, i + Len(sub)) = sub

\* the extension the declared compression stands for
cga_ext(cga_str) ==
  IF cga_str = <<49>> \/ InText(<<87, 83, 81>>, cga_str) THEN "wsq"
  ELSE IF cga_str \in {<<52>>, <<53>>} \/ InText(<<74, 80, 50>>, cga_str) THEN "jp2"
  ELSE IF cga_str \in {<<50>>, <<51>>} \/ InText(<<74, 80, 69>>, cga_str)
          \/ InText(<<74, 80, 76>>, cga_str) THEN "jpg"
  ELSE IF cga_str = <<54>> \/ InText(<<80, 78, 71>>, cga_str) THEN "png"
  ELSE "raw"

WSQ_MAGIC == <<255, 160>>
JPEG_MAGIC == <<255, 216>>
JP2_BOX == <<0, 0, 0, 12>>
JP2_MAGIC == <<106, 80, 32, 32>>
PNG_MAGIC == <<137, 80, 78, 71, 13, 10, 26, 10>>

\* variant: the declared compression decides
magic_ext_declared(data, ext) == ext

\* the extension after the look at the first bytes of the image
magic_ext(data, ext) ==
  IF Len(data) < 2 THEN ext
  ELSE IF Slice(data, 0, 2) = WSQ_MAGIC THEN "wsq"
  ELSE IF Slice(data, 0, 2) = JPEG_MAGIC THEN "jpg"
  ELSE IF Slice(data, 0, 4) = JP2_BOX \/ Slice(data, 4, 8) = JP2_MAGIC THEN "jp2"
  ELSE IF Slice(data, 0, 8) = PNG_MAGIC THEN "png"
  ELSE ext

\* r.get(key, default) of a parsed record
RecGet(r, key, default) == IF DictHas(r, key) THEN DictGet(r, key).v ELSE default

\* the record holds an image extract_images takes
HasImage(r) ==
  /\ RecType(r) \in {<<52>>, <<49, 52>>}
  /\ DictHas(r, RecType(r) \o <<DOT, 57, 57, 57>>)

\* the entry of the returned list for record r; file names as <<fgp, ext>>,
\* converted: the preview was written
ImageEntry(r, converted) ==
  LET rec_type == RecType(r)
      is14 == rec_type = <<49, 52>>
      fgp == RecGet(r, IF is14 THEN Tag(14, 13) ELSE Tag(4, 4), <<48>>)
      cga == RecGet(r, IF is14 THEN Tag(14, 11) ELSE Tag(4, 8), <<82, 65, 87>>)
      payload == DictGet(r, rec_type \o <<DOT, 57, 57, 57>>).v
  IN [fgp |-> fgp,
      original_path |-> <<fgp, magic_ext(payload, cga_ext(Upper(cga)))>>,
      display_path |-> IF converted THEN <<fgp, "png">> ELSE <<>>,
      width |-> RecGet(r, rec_type \o <<DOT, 48, 48, 54>>, <<48>>),
      height |-> RecGet(r, rec_type \o <<DOT, 48, 48, 55>>, <<48>>),
      cga |-> cga,
      written |-> payload]

\* the loop of extract_images from the i-th record on; converted[i]: the
\* preview of the i-th record's image was written
RECURSIVE extract_from(_, _, _, _)
extract_from(recs, i, converted, images) ==
  IF i > Len(recs) THEN [status |-> "returned", images |-> images]
  ELSE IF recs[i] = <<>> THEN [status |-> "IndexError", images |-> images]
  ELSE extract_from(recs, i + 1, converted,
                    IF HasImage(recs[i])
                    THEN Append(images, ImageEntry(recs[i], converted[i]))
                    ELSE images)

extract_images(recs, converted) == extract_from(recs, 1, converted, <<>>)

\* ------------------------------------------------------------------------
\* state
\* ------------------------------------------------------------------------

VARIABLES
  pc,         \* "idle", "build", "parse", "write_failed", "parsed", "saved",
              \* "gen", "returned"
  t1,         \* the Type1 object being assembled, children in t1.cnt
  log,        \* the add_record calls so far, in call order
  origin,     \* who wrote data: "none", "encoder", "crafted"
  written,    \* the f.write calls of write_to_file, in order
  data,       \* the bytes of the file the parser reads
  offset,     \* the parser's offset
  records,    \* the parser's records
  trace,      \* per parsed record: where it started, its length, its path
  presult,    \* how _parse ended: "none", "eof", "no_fs", "abort",
              \* "FileNotFoundError"
  out,        \* what EFTEditor.save ended with: [status, tree, writes]
  attempts,   \* generate_eft: the build_eft_attempt calls so far
  final_path, \* generate_eft: the attempt whose file final_path names, 0 for ""
  final_size, \* the size of that file
  returned,   \* the attempt whose file generate_eft returned, -1 before it returns
  prints,     \* generate_eft: the Fingerprint objects of prints_map, in sorted order
  assembled,  \* the image settings in the file final_path names, in record order
  produced    \* the sizes of the files the attempts have produced so far

vars ==
  <<pc, t1, log, origin, written, data, offset, records, trace, presult, out,
    attempts, final_path, final_size, returned, prints, assembled, produced>>

codecVars == <<t1, log, origin, written, data, offset, records, trace, presult, out>>
genVars == <<attempts, final_path, final_size, returned, prints, assembled, produced>>

NoOutput ==
  [status |-> "none", tree |-> Type1New, writes |-> <<>>,
   type2_updates |-> <<>>, parsed |-> <<>>]

Init ==
  /\ pc = "idle"
  /\ t1 = Type1New
  /\ log = <<>>
  /\ origin = "none"
  /\ written = <<>>
  /\ data = <<>>
  /\ offset = 0
  /\ records = <<>>
  /\ trace = <<>>
  /\ presult = "none"
  /\ out = NoOutput
  /\ attempts = <<>>
  /\ final_path = 0
  /\ final_size = 0
  /\ returned = -1
  /\ prints = <<>>
  /\ assembled = <<>>
  /\ produced = {}

\* ------------------------------------------------------------------------
\* encoder: Type1(), add_record, write_to_file, as build_eft_attempt calls them
\* ------------------------------------------------------------------------

NewType1 ==
  /\ pc = "idle"
  /\ pc' = "build"
  /\ t1' = Type1New
  /\ UNCHANGED <<log, origin, written, data, offset, records, trace, presult, out>>
  /\ UNCHANGED genVars

\* t1.add_record(r), r built for the print at position fgp (0: the Type-2
\* record) from the caller's object arg
Add(r, fgp, arg) ==
  /\ t1' = add_record(t1, r)
  /\ log' = Append(log, [cls |-> r.cls, rtype |-> r.rtype, idc |-> r.idc,
                         fgp |-> fgp, arg |-> arg])
  /\ UNCHANGED <<pc, origin, written, data, offset, records, trace, presult, out>>
  /\ UNCHANGED genVars

\* the Type-2 record is the first child in generate_eft and in the editor
AddType2 ==
  /\ pc = "build"
  /\ Len(t1.cnt) = 0
  /\ \E input \in Type2Inputs : Add(input.t2, 0, input.data)

\* the loops over sorted_prints take the positions in ascending order
NextPositions(positions) ==
  {p \in positions : \A i \in 1..Len(log) : log[i].fgp < p}

\* rolled mode: Type4(fp_obj, idc=num)
AddType4 ==
  /\ pc = "build"
  /\ Len(t1.cnt) >= 1 /\ Len(t1.cnt) < MaxChildren
  /\ \A i \in 2..Len(log) : log[i].cls = "Type4"
  /\ \E num \in NextPositions(RolledPositions) :
       \E f \in PrintsAt(num) : Add(Type4New(f, num), num, f)

\* ATF mode: Type14(fp_obj, idc) with idc counting from 1
AddType14 ==
  /\ pc = "build"
  /\ Len(t1.cnt) >= 1 /\ Len(t1.cnt) < MaxChildren
  /\ \A i \in 2..Len(log) : log[i].cls = "Type14"
  /\ \E fp_num \in NextPositions(SlapPositions) :
       \E f \in PrintsAt(fp_num) : Add(Type14New(f, Len(t1.cnt)), fp_num, f)

\* write_to_file, then EFTParser opened on the file
WriteToFile ==
  /\ pc = "build"
  /\ \E w \in {write_to_file(t1)} :
       /\ written' = w.writes
       /\ data' = FileBytes(w.writes)
       /\ pc' = IF w.ok THEN "parse" ELSE "write_failed"
  /\ origin' = "encoder"
  /\ UNCHANGED <<t1, log, offset, records, trace, presult, out>>
  /\ UNCHANGED genVars

\* ------------------------------------------------------------------------
\* parser: EFTParser._parse, one action per way a round of its loop goes
\* ------------------------------------------------------------------------

OpenFile ==
  /\ pc = "idle"
  /\ \E f \in CraftedFiles : data' = f
  /\ origin' = "crafted"
  /\ pc' = "parse"
  /\ UNCHANGED <<t1, log, written, offset, records, trace, presult, out>>
  /\ UNCHANGED genVars

OpenMissing ==
  /\ pc = "idle"
  /\ pc' = "parsed"
  /\ presult' = "FileNotFoundError"
  /\ UNCHANGED <<t1, log, origin, written, data, offset, records, trace, out>>
  /\ UNCHANGED genVars

\* "while offset < file_len"; MaxRecords caps the rounds of a loop that makes
\* no progress
InLoop == pc = "parse" /\ offset < Len(data) /\ Len(records) < MaxRecords

\* break, or the loop condition failing: _parse returns
Leave(how) ==
  /\ pc' = "parsed"
  /\ presult' = how
  /\ UNCHANGED <<t1, log, origin, written, data, offset, records, trace, out>>
  /\ UNCHANGED genVars

\* self.records.append(parsed_record); offset += record_len; continue
Take(record, record_len, via) ==
  /\ records' = Append(records, record)
  /\ offset' = offset + record_len
  /\ trace' = Append(trace, [at |-> offset, len |-> record_len, via |-> via])
  /\ UNCHANGED <<pc, t1, log, origin, written, data, presult, out>>
  /\ UNCHANGED genVars

ParseEof ==
  /\ pc = "parse"
  /\ offset >= Len(data)
  /\ Leave("eof")

\* the Type-1 fast path: the record ends at the first FS
ParseType1 ==
  /\ InLoop
  /\ IsType1At(data, offset)
  /\ \E fs_index \in {Find(data, FS_CHAR, offset)} :
       IF fs_index = -1 THEN Leave("no_fs")
       ELSE \E record_len \in {(fs_index - offset) + 1} :
              Take(parse_record(Slice(data, offset, offset + record_len)),
                   record_len, "type1")

\* the tagged path: the declared length, cut to what is left of the file
ParseTagged ==
  /\ InLoop
  /\ ~IsType1At(data, offset)
  /\ \E tagged \in {TaggedAt(data, offset)} :
       /\ tagged.ok
       /\ \E record_len \in {IF offset + tagged.len > Len(data)
                               THEN Len(data) - offset ELSE tagged.len} :
            Take(parse_record(Slice(data, offset, offset + record_len)),
                 record_len, "tagged")

\* the binary fallback
ParseBinary ==
  /\ InLoop
  /\ ~IsType1At(data, offset)
  /\ ~TaggedAt(data, offset).ok
  /\ \E bin \in {BinaryAt(data, offset)} :
       /\ bin.ok
       /\ Take(parse_binary_type4(Slice(data, offset, offset + bin.len)),
               bin.len, "binary")

\* "Failed to parse record at offset ... Aborting." and break
ParseAbort ==
  /\ InLoop
  /\ ~IsType1At(data, offset)
  /\ ~TaggedAt(data, offset).ok
  /\ ~BinaryAt(data, offset).ok
  /\ Leave("abort")

\* ------------------------------------------------------------------------
\* editor: EFTEditor.save on the parser's records
\* ------------------------------------------------------------------------

Type2Index(recs) ==
  IF \E i \in 1..Len(recs) : IsType2Dict(recs[i])
  THEN CHOOSE i \in 1..Len(recs) :
         IsType2Dict(recs[i]) /\ \A j \in 1..(i - 1) : ~IsType2Dict(recs[j])
  ELSE 0

\* the tree written out
EditorWrite(t, w) ==
  [status |-> IF w.ok THEN "ok" ELSE "raised", tree |-> t, writes |-> w.writes]

EditorOut(t) == EditorWrite(t, write_to_file(t))

\* the outcome o of save(type2_updates) on the parsed records recs
Edited(o, type2_updates, recs) ==
  [status |-> o.status, tree |-> o.tree, writes |-> o.writes,
   type2_updates |-> type2_updates, parsed |-> recs]

\* a run edits the file it was given, not the file it wrote
EditorSave ==
  /\ pc = "parsed"
  /\ presult # "FileNotFoundError"
  /\ origin # "edited"
  /\ pc' = "saved"
  /\ \E ups \in Updates, t2_idx \in {Type2Index(records)} :
       out' = Edited(IF records = <<>> \/ t2_idx = 0
                     THEN [status |-> "ValueError", tree |-> Type1New, writes |-> <<>>]
                     ELSE EditorOut(EditorTree(records, t2_idx, ups)),
                     ups, records)
  /\ UNCHANGED <<t1, log, origin, written, data, offset, records, trace, presult>>
  /\ UNCHANGED genVars

\* EFTParser opened on the file save wrote
OpenEdited ==
  /\ pc = "saved"
  /\ out.status = "ok"
  /\ pc' = "parse"
  /\ origin' = "edited"
  /\ data' = FileBytes(out.writes)
  /\ offset' = 0
  /\ records' = <<>>
  /\ trace' = <<>>
  /\ presult' = "none"
  /\ UNCHANGED <<t1, log, written, out>>
  /\ UNCHANGED genVars

\* ------------------------------------------------------------------------
\* orchestrator: generate_eft's RAW attempt, WSQ loop and fallback
\* ------------------------------------------------------------------------

GenerateEft ==
  /\ pc = "idle"
  /\ pc' = "gen"
  /\ prints' = [i \in 1..Len(GenPositions) |-> FingerprintNew(GenPositions[i])]
  /\ UNCHANGED codecVars
  /\ UNCHANGED <<attempts, final_path, final_size, returned, assembled, produced>>

\* one try block: build_eft_attempt raises, before the first conversion or
\* after the last (no path is returned: final_path keeps its value), or it
\* converts every print, assembles and writes a file that getsize measures
Attempt(compression_type, bitrate) ==
  \E oks \in ConversionOutcomes(compression_type) :
    \E ps \in {ConvertAll(prints, compression_type, bitrate, oks)} :
      /\ \/ /\ attempts' = Append(attempts, [compression_type |-> compression_type,
                                             bitrate |-> bitrate, fit |-> FALSE])
            /\ prints' \in {prints, ps}
            /\ UNCHANGED <<pc, final_path, final_size, returned, assembled, produced>>
         \/ /\ \A i \in 1..Len(ps) : ps[i].converted # "none"
            /\ \E size \in FileSizes :
                 /\ attempts' = Append(attempts, [compression_type |-> compression_type,
                                                  bitrate |-> bitrate, fit |-> Fits(size)])
                 /\ prints' = ps
                 /\ assembled' = [i \in 1..Len(ps) |-> ImageOf(ps[i])]
                 /\ produced' = produced \cup {size}
                 /\ final_path' = Len(attempts) + 1
                 /\ final_size' = size
                 /\ IF Fits(size)
                    THEN pc' = "returned" /\ returned' = Len(attempts) + 1
                    ELSE UNCHANGED <<pc, returned>>
      /\ UNCHANGED codecVars

AttemptRaw ==
  /\ pc = "gen"
  /\ attempts = <<>>
  /\ Attempt("RAW", 0)

AttemptWsq ==
  /\ pc = "gen"
  /\ Len(attempts) >= 1 /\ Len(attempts) <= Len(bitrates)
  /\ Attempt("WSQ", bitrates[Len(attempts)])

\* "Could not meet 11.8 MB limit": return verify_and_return(final_path)
Fallback ==
  /\ pc = "gen"
  /\ Len(attempts) = 1 + Len(bitrates)
  /\ pc' = "returned"
  /\ returned' = final_path
  /\ UNCHANGED <<attempts, final_path, final_size, prints, assembled, produced>>
  /\ UNCHANGED codecVars

Next ==
  \/ NewType1
  \/ AddType2
  \/ AddType4
  \/ AddType14
  \/ WriteToFile
  \/ OpenFile
  \/ OpenMissing
  \/ ParseEof
  \/ ParseType1
  \/ ParseTagged
  \/ ParseBinary
  \/ ParseAbort
  \/ EditorSave
  \/ OpenEdited
  \/ GenerateEft
  \/ AttemptRaw
  \/ AttemptWsq
  \/ Fallback

Spec == Init /\ [][Next]_vars

\* ------------------------------------------------------------------------
\* the length solver on its own: Record.repr on records of chosen sizes
\* ------------------------------------------------------------------------

\* n bytes "0"
Zeros(n) == [i \in 1..n |-> 48]

\* payload sizes of the Type-14 records serialized: every size up to 100 (a
\* record of 16 + n bytes before its length digits), and the sizes around
\* which the length gains a fourth, a fifth, a sixth and a seventh digit
MaxSmallImage == 100
ImageLens ==
  0..MaxSmallImage \cup 979..983 \cup 9978..9982 \cup 99977..99981
  \cup 999977..999979

\* name lengths of the Type-2 records serialized (62 + n bytes before the
\* length digits)
NameLens == 30..40

\* a Type14Raw record without fields, Type14Raw records holding an image,
\* Type-2 records holding a name
LenRecords ==
  {Type14RawNew(<<>>, 0)}
  \cup {Type14RawNew(<<Entry(Tag(14, 999), Bytes(Zeros(n)))>>, 0) : n \in ImageLens}
  \cup {Type2New(0, [EmptyBio EXCEPT !.name = Zeros(n)]) : n \in NameLens}

InitLen ==
  /\ pc = "len"
  /\ t1 \in LenRecords
  /\ log = <<>>
  /\ origin = "none"
  /\ written = <<>>
  /\ data = <<>>
  /\ offset = 0
  /\ records = <<>>
  /\ trace = <<>>
  /\ presult = "none"
  /\ out = NoOutput
  /\ attempts = <<>>
  /\ final_path = 0
  /\ final_size = 0
  /\ returned = -1
  /\ prints = <<>>
  /\ assembled = <<>>
  /\ produced = {}

\* f.write(record.repr()), with the rounds _get_len ran and the len it left
Repr ==
  /\ pc = "len"
  /\ pc' = "len_done"
  /\ written' = <<repr(t1)>>
  /\ log' = <<[rounds |-> get_len_rounds(t1, <<49>>, LEN_ROUNDS), len |-> get_len(t1)]>>
  /\ UNCHANGED <<t1, origin, data, offset, records, trace, presult, out>>
  /\ UNCHANGED genVars

NextLen == Repr

SpecLen == InitLen /\ [][NextLen]_vars

\* ------------------------------------------------------------------------
\* extract_images on its own: one parsed image record of chosen payload and
\* declared compression
\* ------------------------------------------------------------------------

\* payloads with each signature, with two signatures, with a cut signature,
\* with none
Payloads ==
  {<<255, 160, 1, 2>>, <<255, 216, 255, 224>>, <<0, 0, 0, 12, 106, 80, 32, 32>>,
   <<0, 0, 0, 12>>, <<9, 9, 9, 9, 106, 80, 32, 32>>,
   <<137, 80, 78, 71, 13, 10, 26, 10, 0>>, <<255, 160, 0, 0, 106, 80, 32, 32>>,
   <<255, 216, 0, 0, 106, 80, 32, 32>>, <<137, 80, 78, 71, 106, 80, 32, 32>>,
   <<137, 80, 78, 71, 13, 10, 26>>, <<1, 2, 3>>, <<255>>, <<>>}

\* values of 14.011: WSQ20, JP2, JPEGB, PNG, NONE, wsq20, XYZ
Declared14 ==
  {<<87, 83, 81, 50, 48>>, <<74, 80, 50>>, <<74, 80, 69, 71, 66>>, <<80, 78, 71>>,
   <<78, 79, 78, 69>>, <<119, 115, 113, 50, 48>>, <<88, 89, 90>>}

\* the compression bytes of a binary Type-4 header
MaxCga == 7

\* a tagged Type-14 record as the encoder writes it, and one without 14.011
Tagged14(cga, payload) ==
  repr(Type14RawNew(<<Pair(14, 11, cga), Pair(14, 13, <<49, 51>>),
                      Entry(Tag(14, 999), Bytes(payload))>>, 1))

Tagged14NoCga(payload) ==
  repr(Type14RawNew(<<Pair(14, 13, <<49, 51>>), Entry(Tag(14, 999), Bytes(payload))>>, 1))

\* a binary Type-4 record as the encoder writes it
Binary4(cga, payload) ==
  repr([cls |-> "Type4Raw", rtype |-> <<52>>, idc |-> 1, fgp |-> 2, imp |-> 0,
        isr |-> 0, hll |-> 4, vll |-> 4, cga |-> cga, dat |-> payload])

ImageRecords ==
  {parse_record(Tagged14(c, p)) : c \in Declared14, p \in Payloads}
  \cup {parse_record(Tagged14NoCga(p)) : p \in Payloads}
  \cup {parse_binary_type4(Binary4(c, p)) : c \in 0..MaxCga, p \in Payloads}

InitImg ==
  /\ pc = "images"
  /\ t1 = Type1New
  /\ log = <<>>
  /\ origin = "none"
  /\ written = <<>>
  /\ data = <<>>
  /\ offset = 0
  /\ \E r \in ImageRecords : records = <<r>>
  /\ trace = <<>>
  /\ presult = "eof"
  /\ out = NoOutput
  /\ attempts = <<>>
  /\ final_path = 0
  /\ final_size = 0
  /\ returned = -1
  /\ prints = <<>>
  /\ assembled = <<>>
  /\ produced = {}

\* parser.extract_images(output_dir); whether cv2 and dwsq turn an image into
\* a preview is theirs to decide
ExtractImages ==
  /\ pc = "images"
  /\ pc' = "extracted"
  /\ \E converted \in [1..Len(records) -> BOOLEAN] :
       out' = extract_images(records, converted)
  /\ UNCHANGED <<t1, log, origin, written, data, offset, records, trace, presult>>
  /\ UNCHANGED genVars

NextImg == ExtractImages

SpecImg == InitImg /\ [][NextImg]_vars

\* ------------------------------------------------------------------------
\* observers: what a reader of the written bytes sees, without the parser
\* ------------------------------------------------------------------------

\* where the field "key:" starts in a tagged record (1-based), 0 when absent
FieldStart(rec, key) ==
  LET at == {p \in 1..Len(rec) :
               /\ p + Len(key) <= Len(rec)
               /\ SubSeq(rec, p, p + Len(key)) = key \o <<COLON>>
               /\ (p = 1 \/ rec[p - 1] = GS_CHAR)}
  IN IF at = {} THEN 0 ELSE CHOOSE p \in at : \A q \in at : p <= q

\* the text from position from up to the next GS or FS
TextUntilSeparator(rec, from) ==
  LET stops == {q \in from..Len(rec) : rec[q] \in {GS_CHAR, FS_CHAR}}
  IN IF stops = {} THEN SubSeq(rec, from, Len(rec))
     ELSE SubSeq(rec, from, (CHOOSE q \in stops : \A x \in stops : q <= x) - 1)

FieldValueFrom(rec, key, start) ==
  IF start = 0 THEN <<>> ELSE TextUntilSeparator(rec, start + Len(key) + 1)

FieldText(rec, key) == FieldValueFrom(rec, key, FieldStart(rec, key))

\* the type of a written tagged record: the digits before its first '.'
WrittenType(rec) == Slice(rec, 0, Find(rec, DOT, 0))

\* a written record is binary when it does not start with a digit
IsBinaryWrite(rec) == rec = <<>> \/ ~IsDigit(rec[1])

\* the number field 001 of a written tagged record declares
Declared001(rec) == PyInt(FieldText(rec, WrittenType(rec) \o <<DOT, 48, 48, 49>>))

\* <<type, idc>> of a written record
WrittenKind(rec) ==
  IF IsBinaryWrite(rec) THEN <<<<52>>, rec[5]>>
  ELSE <<WrittenType(rec), PyInt(FieldText(rec, WrittenType(rec) \o <<DOT, 48, 48, 50>>)).val>>

\* <<type, idc>> of an add_record call
LoggedKind(e) ==
  <<e.rtype, IF e.cls \in {"Type4", "Type4Raw"} THEN e.idc ELSE PyInt(e.idc).val>>

\* the pairs of a 1.003 value after its leading "1 US N" item
DirectoryPairs(cnt) == Tail(Split(cnt, RS_CHAR))

\* <<type, idc>> of a directory pair
PairKind(pair) == <<Split(pair, US_CHAR)[1], PyInt(Split(pair, US_CHAR)[2]).val>>

\* <<type, idc>> of a parsed record
ParsedKind(rec) ==
  <<RecType(rec), PyInt(DictGet(rec, RecType(rec) \o <<DOT, 48, 48, 50>>).v).val>>

\* the encoder's file has been written in full
EncoderFile == origin = "encoder" /\ pc \in {"parse", "parsed", "saved"}

\* the file generate_eft's run wrote: its Type-2 record is Type2(0)
GeneratorFile == EncoderFile /\ Len(log) >= 1 /\ log[1].idc = <<48>>

\* the editor's file has been written in full
EditorFile == pc = "saved" /\ out.status = "ok"

\* ------------------------------------------------------------------------
\* properties
\* ------------------------------------------------------------------------

\* every tagged record among writes, rs being the objects written, declares in
\* 001 the number of bytes written for it
TaggedLengthsHold(rs, writes) ==
  \A i \in 1..Len(writes) :
    ~IsBinaryClass(rs[i]) =>
      /\ writes[i][Len(writes[i])] = FS_CHAR
      /\ Declared001(writes[i]).ok
      /\ Declared001(writes[i]).val = Len(writes[i])

C2_DirectoryInInsertionOrder ==
  EncoderFile =>
    /\ Len(written) = 1 + Len(log)
    /\ WrittenType(written[1]) = <<49>>
    /\ Split(FieldText(written[1], Tag(1, 3)), RS_CHAR)[1]
         = <<49, US_CHAR>> \o Str(Len(log))
    /\ Len(DirectoryPairs(FieldText(written[1], Tag(1, 3)))) = Len(log)
    /\ \A k \in 1..Len(log) :
         /\ PairKind(DirectoryPairs(FieldText(written[1], Tag(1, 3)))[k])
              = LoggedKind(log[k])
         /\ WrittenKind(written[k + 1]) = LoggedKind(log[k])

C2_Witness ==
  /\ EncoderFile
  /\ Len(log) = 3
  /\ log[2].cls = "Type4" /\ log[3].cls = "Type4"
  /\ LoggedKind(log[2]) # LoggedKind(log[3])
  /\ WrittenKind(written[3]) = LoggedKind(log[2])

\* the parsed records lie in the file one after the other from byte 0
InFileOrder ==
  /\ Len(trace) = Len(records)
  /\ \A k \in 1..Len(trace) :
       trace[k].at = (IF k = 1 THEN 0 ELSE trace[k - 1].at + trace[k - 1].len)

Type4Fields(r) ==
  <<Pair(4, 2, Str(r.idc)), Pair(4, 3, Str(r.imp)), Pair(4, 4, Str(r.fgp)),
    Pair(4, 5, Str(r.isr)), Pair(4, 6, Str(r.hll)), Pair(4, 7, Str(r.vll)),
    Pair(4, 8, Str(r.cga)), Entry(Tag(4, 999), Bytes(r.dat))>>

Type4LengthsHold(rs, writes) ==
  \A i \in 1..Len(writes) :
    IsBinaryClass(rs[i]) =>
      /\ Len(writes[i]) >= 18
      /\ U32Value(SubSeq(writes[i], 1, 4)) = 18 + (Len(writes[i]) - 18)
      /\ SubSeq(writes[i], 19, Len(writes[i])) = rs[i].dat

\* C6: in every Type-4 record the encoder writes, from a Type4 or a Type4Raw
\* object, the big-endian uint32 of bytes 0..3 is 18 plus the number of image
\* payload bytes after the 18-byte header.
C6_Type4DeclaredLength ==
  /\ (origin = "encoder" => Type4LengthsHold(<<t1>> \o t1.cnt, written))
  /\ (out.status \in {"ok", "raised"} =>
        Type4LengthsHold(<<out.tree>> \o out.tree.cnt, out.writes))

C6_Witness ==
  /\ EncoderFile /\ EditorFile
  /\ Len(written) = 4 /\ t1.cnt[2].cls = "Type4" /\ t1.cnt[3].cls = "Type4"
  /\ Len(out.writes) = 4 /\ out.tree.cnt[2].cls = "Type4Raw"
  /\ out.tree.cnt[3].cls = "Type4Raw"
  /\ t1.cnt[2].dat = <<>> /\ U32Value(SubSeq(written[3], 1, 4)) = 18
  /\ U32Value(SubSeq(out.writes[4], 1, 4)) = 18 + Len(ImgLikeField)

\* C7: every round of the record loop either moves the offset forward by a
\* positive record length or stops the loop, a record declaring length 0 or
\* a negative length included.
C7_EveryRoundAdvances ==
  [][(pc = "parse" /\ offset < Len(data)) => (offset' > offset \/ pc' # "parse")]_vars

\* C8: when no parse step succeeds at an offset before the end of the file the
\* parser ends in a ParseFailure error; it does not return normally with the
\* records parsed so far.
C8_FailureIsFatal ==
  (pc \in {"parsed", "saved"} /\ presult # "FileNotFoundError" /\ offset < Len(data))
    => presult = "ParseFailure"

\* C9: a file whose first record is not a Type-1 record is rejected: the parser
\* never comes to the end of such a file with records to return.
C9_FirstRecordMustBeType1 ==
  (pc \in {"parsed", "saved"} /\ presult = "eof" /\ records # <<>>)
    => IsType1At(data, 0)

\* the compression of the i-th attempt, as generate_eft is written to make
\* them: none, then WSQ at 3.5, 3.0, 2.5, 2.0, 1.5, 1.0, 0.75
AttemptOrder ==
  <<[compression_type |-> "RAW", bitrate |-> 0],
    [compression_type |-> "WSQ", bitrate |-> 350],
    [compression_type |-> "WSQ", bitrate |-> 300],
    [compression_type |-> "WSQ", bitrate |-> 250],
    [compression_type |-> "WSQ", bitrate |-> 200],
    [compression_type |-> "WSQ", bitrate |-> 150],
    [compression_type |-> "WSQ", bitrate |-> 100],
    [compression_type |-> "WSQ", bitrate |-> 75]>>

\* C10: the attempts of generate_eft come in a fixed order, the first without
\* compression and each later one with WSQ at the next bitrate of 3.5, 3.0,
\* 2.5, 2.0, 1.5, 1.0, 0.75; no attempt follows one whose file was found to
\* fit, and the file of that attempt is the one returned. A file of at most
\* 11,744,051 bytes, the documented ceiling, is always found to fit.
C10_AttemptOrder ==
  /\ Len(attempts) <= Len(AttemptOrder)
  /\ \A i \in 1..Len(attempts) :
       /\ attempts[i].compression_type = AttemptOrder[i].compression_type
       /\ attempts[i].bitrate = AttemptOrder[i].bitrate
       /\ attempts[i].fit =>
            /\ i = Len(attempts)
            /\ pc = "returned"
            /\ returned = i
            /\ final_path = i
            /\ Fits(final_size)
  /\ (pc = "gen" /\ final_path > 0) => ~Fits(final_size)
  /\ (final_path > 0 /\ final_size <= 11744051) => attempts[final_path].fit

C10_Witness ==
  /\ pc = "returned"
  /\ Len(attempts) = 4
  /\ attempts[4].fit /\ attempts[4].bitrate = 250
  /\ returned = 4
  /\ final_size = 12373196
  /\ produced = {13000000, 12373196}

\* C11: when the ladder is exhausted without a fitting attempt, the file
\* generate_eft returns is the smallest of the files its attempts produced.
C11_FallbackReturnsSmallest ==
  (/\ pc = "returned"
   /\ Len(attempts) = 1 + Len(bitrates)
   /\ ~attempts[Len(attempts)].fit
   /\ produced # {})
    => /\ returned = final_path
       /\ final_path > 0
       /\ \A size \in produced : final_size <= size

\* C12: a file generate_eft returns because it judged it to fit has at most
\* 11,744,051 bytes.
C12_FitWithinCeiling ==
  (pc = "returned" /\ returned > 0 /\ attempts[returned].fit)
    => final_size <= 11744051

\* C13: every image in a produced file carries the compression setting of the
\* attempt that produced the file: a WSQ attempt assembles no image left over
\* from an earlier attempt.
C13_NoLeftoverImages ==
  final_path > 0 =>
    \A i \in 1..Len(assembled) :
      IF attempts[final_path].compression_type = "RAW"
      THEN assembled[i].file = "raw" /\ assembled[i].cga = CgaNone
      ELSE /\ assembled[i].file = "wsq"
           /\ assembled[i].cga = CgaWsq
           /\ assembled[i].rate = attempts[final_path].bitrate

\* the inputs of the run recorded in log: the form data in log[1].arg, the
\* prints in call order, and the mode
LoggedPrints == [i \in 1..(Len(log) - 1) |-> log[i + 1].arg]

LoggedMode == IF Len(log) >= 2 /\ log[2].cls = "Type4" THEN "rolled" ELSE "atf"

\* a sequence back to front
Reversed(s) == [i \in 1..Len(s) |-> s[Len(s) + 1 - i]]

\* the bytes a run of build_eft_attempt writes
RunBytes(form, prints_map, mode) ==
  FileBytes(write_to_file(build_eft_attempt(form, prints_map, mode)).writes)

IdcsDistinctInOrder(writes) ==
  /\ \A i, j \in 2..Len(writes) :
       i # j => WrittenKind(writes[i])[2] # WrittenKind(writes[j])[2]
  /\ Len(DirectoryPairs(FieldText(writes[1], Tag(1, 3)))) = Len(writes) - 1
  /\ \A k \in 2..Len(writes) :
       PairKind(DirectoryPairs(FieldText(writes[1], Tag(1, 3)))[k - 1])[2]
         = WrittenKind(writes[k])[2]

\* C15: in every file generate_eft writes, in either mode, and in every file
\* EFTEditor.save writes, the IDCs of the records after the Type-1 record are
\* pairwise distinct and appear in 1.003 in file order.
C15_IdcsDistinct ==
  /\ (GeneratorFile => IdcsDistinctInOrder(written))
  /\ (EditorFile => IdcsDistinctInOrder(out.writes))

\* field 002 of the written tagged record rec
Written002(rec) == FieldText(rec, WrittenType(rec) \o <<DOT, 48, 48, 50>>)

\* every tagged record written after the first holds in 002 two digits, the
\* text of the IDC item of its pair in the written 1.003
Idc002Padded(writes) ==
  \A k \in 2..Len(writes) :
    ~IsBinaryWrite(writes[k]) =>
      /\ Len(Written002(writes[k])) = 2
      /\ \A p \in 1..Len(Written002(writes[k])) : IsDigit(Written002(writes[k])[p])
      /\ k - 1 <= Len(DirectoryPairs(FieldText(writes[1], Tag(1, 3))))
      /\ Written002(writes[k])
           = Split(DirectoryPairs(FieldText(writes[1], Tag(1, 3)))[k - 1], US_CHAR)[2]

\* C16: every Type-2 and Type-14 record the encoder or the editor writes holds
\* its IDC in field 002 as exactly two zero-padded digits, the same text as
\* the IDC item of its pair in 1.003.
C16_Idc002TwoDigits ==
  /\ (EncoderFile => Idc002Padded(written))
  /\ (EditorFile => Idc002Padded(out.writes))

\* generate_eft's ATF run on slaps at positions 13, 14 and 15 has written its file
ThreeSlapFile ==
  /\ GeneratorFile /\ Len(log) = 4
  /\ \A k \in 2..4 : log[k].cls = "Type14" /\ log[k].fgp = 11 + k

\* C17: in ATF mode with the three slaps 13, 14 and 15 the Type-2 record has
\* IDC 01, the Type-14 records IDC 02, 03 and 04 in that order, and 1.003 is
\* 1 US 4 RS 2 US 01 RS 14 US 02 RS 14 US 03 RS 14 US 04.
C17_AtfThreeSlapIdcs ==
  ThreeSlapFile =>
    /\ WrittenKind(written[2]) = <<<<50>>, 1>>
    /\ \A k \in 3..5 : WrittenKind(written[k]) = <<<<49, 52>>, k - 1>>
    /\ FieldText(written[1], Tag(1, 3))
         = <<49, US_CHAR, 52, RS_CHAR, 50, US_CHAR, 48, 49,
             RS_CHAR, 49, 52, US_CHAR, 48, 50, RS_CHAR, 49, 52, US_CHAR, 48, 51,
             RS_CHAR, 49, 52, US_CHAR, 48, 52>>

\* the file save wrote has been parsed again
EditedParsed == origin = "edited" /\ pc = "parsed"

\* the Type-2 record of the records recs holds value v under key k
Type2Holds(recs, k, v) ==
  /\ Type2Index(recs) > 0
  /\ DictHas(recs[Type2Index(recs)], k)
  /\ DictGet(recs[Type2Index(recs)], k).v = v

\* C18: for every Type-2 key k other than 2.001 and every non-empty value v,
\* after save({k: v}) the file written, parsed again, holds v under k.
C18_EditRoundTrip ==
  EditedParsed =>
    \A i \in 1..Len(out.type2_updates) :
      (/\ StartsWith(out.type2_updates[i].k, <<50, DOT>>)
       /\ out.type2_updates[i].k # Tag(2, 1)
       /\ out.type2_updates[i].v # <<>>)
        => Type2Holds(records, out.type2_updates[i].k, out.type2_updates[i].v)

\* the records of recs that are no Type-1 record
NonType1(recs) == SelectSeq(recs, LAMBDA r : r = <<>> \/ RecType(r) # <<49>>)

\* the keys an update names
NamedKeys(type2_updates) == {type2_updates[i].k : i \in 1..Len(type2_updates)}

\* the image payload of the record now holds what the record before held
SamePayload(before, now) ==
  \A key \in {Tag(4, 999), Tag(14, 999)} :
    (before # <<>> /\ DictHas(before, key)) =>
      now # <<>> /\ DictHas(now, key) /\ DictGet(now, key).v = DictGet(before, key).v

\* every field of the Type-2 record before, 2.001 and the named keys apart,
\* is in the Type-2 record now with its value
SameType2Fields(before, now, named) ==
  \A i \in 1..Len(before) :
    (before[i].k \notin named /\ before[i].k # Tag(2, 1)) =>
      DictHas(now, before[i].k) /\ DictGet(now, before[i].k).v = before[i].v

\* C19: the file save wrote, parsed again, has as many records other than
\* Type-1 as the parsed original, of the same types in the same order, with
\* every 4.999 and 14.999 payload unchanged, and its Type-2 record holds every
\* field of the original Type-2 record that the update does not name (2.001,
\* the recomputed length, apart) with its parsed value.
C19_SaveChangesOnlyNamedFields ==
  EditedParsed =>
    /\ Len(NonType1(records)) = Len(NonType1(out.parsed))
    /\ \A k \in 1..Len(NonType1(out.parsed)) :
         /\ NonType1(records)[k] # <<>> /\ NonType1(out.parsed)[k] # <<>>
         /\ RecType(NonType1(records)[k]) = RecType(NonType1(out.parsed)[k])
         /\ SamePayload(NonType1(out.parsed)[k], NonType1(records)[k])
    /\ Type2Index(records) > 0
    /\ SameType2Fields(out.parsed[Type2Index(out.parsed)],
                       records[Type2Index(records)], NamedKeys(out.type2_updates))

\* the written record is a Type-2 record
IsType2Write(rec) == ~IsBinaryWrite(rec) /\ WrittenType(rec) = <<50>>

\* the "tag:value" items of a written tagged record
WrittenItems(rec) == Split(SubSeq(rec, 1, Len(rec) - 1), GS_CHAR)

\* every item of the written Type-2 records among writes has at least one
\* byte after its colon
Type2ValuesNonEmpty(writes) ==
  \A k \in 1..Len(writes) :
    IsType2Write(writes[k]) =>
      \A i \in 1..Len(WrittenItems(writes[k])) :
        /\ Find(WrittenItems(writes[k])[i], COLON, 0) >= 0
        /\ Len(WrittenItems(writes[k])[i])
             > Find(WrittenItems(writes[k])[i], COLON, 0) + 1

\* C20: no Type-2 record the encoder or the editor writes holds a field with
\* an empty value: every 2.NNN tag written is followed by at least one value
\* byte, and an attribute left empty, such as the alias 2.019, is not written.
C20_NoEmptyType2Field ==
  /\ (EncoderFile =>
        /\ Type2ValuesNonEmpty(written)
        /\ (Len(log) >= 1 /\ t1.cnt[1].aka = <<>>) =>
              FieldStart(written[2], Tag(2, 19)) = 0)
  /\ (EditorFile => Type2ValuesNonEmpty(out.writes))

\* the weight the form data of the run holds is a number in 0..499
WeightInRange(form) ==
  /\ DictHas(form, Tag(2, 29))
  /\ PyInt(DictGet(form, Tag(2, 29)).v).ok
  /\ PyInt(DictGet(form, Tag(2, 29)).v).val \in 0..499

\* C21: whatever the weight input (missing, not a number, negative, any
\* integer), field 2.029 of the file generate_eft writes is exactly three
\* decimal digits for a number in 000..499, and is 000 whenever the input is
\* not a number in that range.
C21_WeightThreeDigits ==
  GeneratorFile =>
    /\ Len(FieldText(written[2], Tag(2, 29))) = 3
    /\ IsDigits(FieldText(written[2], Tag(2, 29)))
    /\ DigitsValue(FieldText(written[2], Tag(2, 29))) <= 499
    /\ (~WeightInRange(log[1].arg) =>
          FieldText(written[2], Tag(2, 29)) = <<48, 48, 48>>)

\* C22: generate_eft writes no file for form data whose name 2.018 is empty
\* or missing.
C22_EmptyNameRejected ==
  GeneratorFile => DataGet(log[1].arg, Tag(2, 18), <<>>) # <<>>

\* C23: when write_to_file raises part-way, after the Type-1 record or earlier
\* children were written, nothing of the partial output is left at the output
\* path once the operation has ended, for the encoder and for the editor.
C23_NoPartialFile ==
  /\ (pc = "write_failed" => data = <<>>)
  /\ (out.status = "raised" => out.writes = <<>>)

\* the records are a Type-1 record, a Type-2 record and image records
Type1Type2Images(recs) ==
  /\ Len(recs) >= 2
  /\ \A k \in 1..Len(recs) : recs[k] # <<>>
  /\ RecType(recs[1]) = <<49>>
  /\ RecType(recs[2]) = <<50>>
  /\ \A k \in 3..Len(recs) : RecType(recs[k]) \in {<<52>>, <<49, 52>>}

\* C30: save completes and writes every record for every file the parser read
\* as a Type-1 record, a Type-2 record and image records, whatever text values
\* the parser yielded (non-ASCII characters and replaced bytes included).
C30_SaveSerializesParsedText ==
  (pc = "saved" /\ Type1Type2Images(out.parsed)) =>
    /\ out.status = "ok"
    /\ Len(out.writes) = Len(out.parsed)

\* C24: from the guess "1" the length solver reaches a value equal to the
\* length of the serialization holding it within at most 4 rounds, for tagged
\* records up to 9,999,999 bytes, the sizes at which the length gains a digit
\* included.
C24_SolverWithinFourRounds ==
  pc = "len_done" =>
    /\ log[1].rounds <= 4
    /\ log[1].len = Str(Len(written[1]))
    /\ Declared001(written[1]).val = Len(written[1])

C24_Witness ==
  /\ pc = "len_done"
  /\ log[1].rounds = 4
  /\ Len(written[1]) = 1001
  /\ Declared001(written[1]).val = 1001

\* the len the solver left is a fixed point: the record serialized with it
\* has that many bytes
SolverStable == log[1].len = Str(Len(JoinDict(get_dict(t1, log[1].len))))

ResumedAt(k) == IF k < Len(trace) THEN trace[k + 1].at ELSE offset

\* C26: a tagged record accepted through its declared length spans exactly
\* the bytes [offset, offset + declared length) of the file and parsing resumes
\* at offset + declared length; no record is yielded from fewer bytes than it
\* declares.
C26_TaggedRecordSpansDeclaredLength ==
  \A k \in 1..Len(trace) :
    trace[k].via = "tagged" =>
      /\ trace[k].len = TaggedAt(data, trace[k].at).len
      /\ trace[k].at + TaggedAt(data, trace[k].at).len <= Len(data)
      /\ ResumedAt(k) = trace[k].at + TaggedAt(data, trace[k].at).len

\* the positions a mode builds records for
ModePositions(mode) == IF mode = "rolled" THEN 1..14 ELSE {13, 14, 15}

\* prints at positions 0, 1, 15 and 16
OtherPrints == {[(CHOOSE f \in PrintsAt(14) : TRUE) EXCEPT !.fgp = q] : q \in {0, 1, 15, 16}}

\* the modes the logged run may have been made in
LoggedModes == IF Len(log) >= 2 THEN {LoggedMode} ELSE {"rolled", "atf"}

\* the finger position of an image record
ChildPosition(r) == IF r.cls = "Type4" THEN r.fgp ELSE PyInt(r.fgp).val

\* after the Type-2 record the children are records of the mode's class, at
\* positions of the mode's set that ascend strictly
ImagesInOrder(cnt, mode) ==
  /\ Len(cnt) >= 1
  /\ cnt[1].cls = "Type2"
  /\ \A k \in 2..Len(cnt) :
       /\ cnt[k].cls = (IF mode = "rolled" THEN "Type4" ELSE "Type14")
       /\ ChildPosition(cnt[k]) \in ModePositions(mode)
       /\ (k > 2 => ChildPosition(cnt[k - 1]) < ChildPosition(cnt[k]))

\* C27: whatever order the prints map holds its keys in, generate_eft emits
\* the image records after the Type-2 record in strictly ascending position
\* order, only Type-14 records for positions 13, 14, 15 in ATF mode and only
\* Type-4 records for positions 1..14 in rolled mode, and no record for a
\* print at a position outside the mode's set.
C27_ImagesAscendingByMode ==
  (GeneratorFile /\ pc = "parse" /\ offset = 0) =>
    \A mode \in LoggedModes :
      \A extra \in {f \in OtherPrints : f.fgp \notin ModePositions(mode)} :
        /\ ImagesInOrder(
             build_eft_attempt(log[1].arg, <<extra>> \o Reversed(LoggedPrints), mode).cnt,
             mode)
        /\ build_eft_attempt(log[1].arg, Reversed(LoggedPrints) \o <<extra>>, mode).cnt
             = t1.cnt

C27_Witness ==
  /\ GeneratorFile /\ pc = "parse" /\ offset = 0
  /\ Len(t1.cnt) = 4
  /\ LoggedMode = "rolled"
  /\ ImagesInOrder(t1.cnt, "rolled")
  /\ build_eft_attempt(log[1].arg,
                       <<CHOOSE f \in OtherPrints : f.fgp = 15>> \o Reversed(LoggedPrints),
                       "rolled").cnt = t1.cnt
  /\ ChildPosition(t1.cnt[2]) = 1 /\ ChildPosition(t1.cnt[4]) = 13

\* the extension of the first signature, in the order WSQ, JPEG, JP2, PNG,
\* that the payload starts with; "none" without one
SignatureOf(payload) ==
  IF StartsWith(payload, WSQ_MAGIC) THEN "wsq"
  ELSE IF StartsWith(payload, JPEG_MAGIC) THEN "jpg"
  ELSE IF StartsWith(payload, JP2_BOX)
          \/ (Len(payload) >= 8 /\ SubSeq(payload, 5, 8) = JP2_MAGIC) THEN "jp2"
  ELSE IF StartsWith(payload, PNG_MAGIC) THEN "png"
  ELSE "none"

\* the compression the record declares; <<>> when it declares none
DeclaredCga(r) ==
  RecGet(r, IF RecType(r) = <<49, 52>> THEN Tag(14, 11) ELSE Tag(4, 8), <<>>)

\* C28: in extract_images, whenever the image payload starts with one of the
\* magic signatures (FF A0: WSQ, FF D8: JPEG, 00 00 00 0C or "jP  " at offset
\* 4: JP2, 89 50 4E 47 0D 0A 1A 0A: PNG), the file extension is the one of the
\* signature whatever compression the record declares, and the declared
\* compression is reported unchanged in the returned metadata.
C28_MagicWinsCgaKept ==
  pc = "extracted" =>
    /\ out.status = "returned"
    /\ Len(out.images) = 1
    /\ out.images[1].written = DictGet(records[1], RecType(records[1]) \o <<DOT, 57, 57, 57>>).v
    /\ SignatureOf(out.images[1].written) # "none" =>
         out.images[1].original_path[2] = SignatureOf(out.images[1].written)
    /\ DeclaredCga(records[1]) # <<>> => out.images[1].cga = DeclaredCga(records[1])

C28_Witness ==
  /\ pc = "extracted"
  /\ DeclaredCga(records[1]) = <<74, 80, 50>>
  /\ cga_ext(Upper(DeclaredCga(records[1]))) = "jp2"
  /\ SignatureOf(out.images[1].written) = "wsq"
  /\ out.images[1].original_path[2] = "wsq"
  /\ out.images[1].cga = <<74, 80, 50>>

\* C29: every record the parser appends to its list has at least one field,
\* so that extract_images, which reads the first key of every record,
\* completes without an index error on any parser result, files that end in a
\* truncated tagged record or in a binary record of fewer than 18 bytes
\* included.
C29_ParsedRecordsHaveAField ==
  /\ \A i \in 1..Len(records) : records[i] # <<>>
  /\ pc = "parsed" =>
       extract_images(records, [i \in 1..Len(records) |-> FALSE]).status = "returned"

=============================================================================
